---- MODULE Spec2Model ----
(***************************************************************************)
(* Model of the fireauth2 authorization/exchange protocol engine:          *)
(* the callback state machine (FireAuthClient::exchange_authorization_code *)
(* behind the fireauth2-server /callback route, and the earlier monolithic *)
(* /callback handler of src/web/routes/callback.rs), the refresh-token     *)
(* exchange and the revocation cascade, all working on the Firestore       *)
(* collection of GoogleUser records.                                       *)
(*                                                                         *)
(* Every external call (provider code exchange / refresh / revoke, the     *)
(* identity-token verifier, store get / update) is one step whose outcome  *)
(* is chosen nondeterministically.  Each request keeps the list of the     *)
(* external calls it has issued in `calls`.                                *)
(***************************************************************************)
EXTENDS Integers, Sequences, FiniteSets, TLC

VARIABLES
    store,      \* Firestore collection: subject id -> Option<GoogleUser>
    revoked,    \* refresh tokens the provider has accepted a revocation for
    issued,     \* number of refresh tokens the provider has issued so far
    enable_existing_token_revocation,  \* AppState flag, fixed per deployment
    deployment, \* which server binary runs: the workspace server or the monolith
    req,        \* per request slot: handler position, inputs, locals, result
    started,    \* number of requests accepted so far
    codec       \* the parameter / session codec at work: function, input, output

config == <<enable_existing_token_revocation, deployment>>

vars == <<store, revoked, issued, config, req, started, codec>>

----------------------------------------------------------------------------
(* Bounds *)

MaxOps == 2        \* requests handled in one behaviour
MaxTokens == 2     \* refresh tokens the provider issues in one behaviour

----------------------------------------------------------------------------
(* Option<T> as a sequence of length at most one *)

None == <<>>
Some(x) == <<x>>
IsSome(o) == Len(o) = 1
IsNone(o) == Len(o) = 0
Unwrap(o) == o[1]

----------------------------------------------------------------------------
(* Value domains *)

Reqs == {"r1", "r2"}
Subjects == {"sub_a", "sub_b"}
RedirectTarget == "https://app.example/done"
CsrfTokens == {"csrf_1", "csrf_2"}
EmailOpts == {None, Some("user@example.com")}
ScopeOpts == {None, Some(<<"email">>)}
Deployments == {"fireauth2-server", "monolith"}

TokenTypeHints == {"access_token", "id_token"}

\* The token_type_hint field of the /introspect form: left out, or a hint.
FormTypeHints == {<<>>} \cup {<<hint>> : hint \in TokenTypeHints}

\* The session cookie as it arrives with the callback request.
Cookies ==
    {[present |-> p[1], wellformed |-> p[2], csrf_token |-> "csrf_1",
      redirect_to |-> RedirectTarget] :
        p \in {<<FALSE, FALSE>>, <<TRUE, FALSE>>, <<TRUE, TRUE>>}}

\* The broker-authenticated caller of /token and /revoke.
Callers ==
    {[authenticated |-> FALSE, google_identity |-> None]}
    \cup
    {[authenticated |-> TRUE, google_identity |-> g] :
        g \in {None} \cup {Some(s) : s \in Subjects}}

\* GoogleUser records the store may hold before the service starts; the
\* provider's refresh tokens are numbered, 0 is one issued before.
InitialUsers ==
    {None,
     Some([email |-> None, refresh_token |-> None, scope |-> <<>>]),
     Some([email |-> None, refresh_token |-> Some(0), scope |-> <<>>])}

----------------------------------------------------------------------------
(* Results *)

\* AuthorizationResponse::new_error rendered as a 302 by the route.
new_error(url, error) ==
    [status |-> 302, kind |-> "Error", url |-> Some(url), error |-> error,
     token |-> None]

\* AuthorizationResponse::new_success rendered as a 302 by the route.
new_success(url, token) ==
    [status |-> 302, kind |-> "Success", url |-> Some(url), error |-> "",
     token |-> Some(token)]

\* ResponseError::status_code of the server's Error.
status_code(err) ==
    CASE err \in {"Firestore", "Http", "TokenRevocationFailed"} -> 502
      [] err \in {"FailedToExtractAuthCookie",
                  "FirebaseUserMissingGoogleIdentity", "MissingRedirectUrl",
                  "InvalidRedirectUrl", "UrlParse",
                  "UserNotFound", "TokenVerification",
                  "MissingConfigField"} -> 400
      [] err = "FirebaseAuth" -> 401
      [] OTHER -> 500

\* ResponseError::error_response: a direct error response, no redirect.
error_response(err, because) ==
    [status |-> status_code(err), kind |-> err, url |-> None,
     error |-> because, token |-> None]

\* HttpResponse::UnprocessableEntity with a JSON error body.
unprocessable_entity(error) ==
    [status |-> 422, kind |-> "UnprocessableEntity", url |-> None,
     error |-> error, token |-> None]

ok_response ==
    [status |-> 200, kind |-> "Ok", url |-> None, error |-> "", token |-> None]

----------------------------------------------------------------------------
(* Request slots *)

Call(name, key, token, ok) ==
    [call |-> name, key |-> key, token |-> token, ok |-> ok]

IdleReq ==
    [op |-> "none", pc |-> "idle",
     csrf_token |-> "", state |-> "", redirect_to |-> "",
     revoke_existing_tokens |-> FALSE,
     caller |-> [authenticated |-> FALSE, google_identity |-> None],
     user_id |-> "", revoke_refresh_token |-> FALSE,
     token_type_hint |-> None,
     response |-> None, payload |-> None, existing |-> None,
     calls |-> <<>>, result |-> None]

\* No parameter or session is being converted.
IdleCodec == [fn |-> "none", input |-> <<>>, output |-> <<>>]

CanStart(r) ==
    /\ req[r].pc \in {"idle", "done"}
    /\ started < MaxOps

\* The request in slot r is finished with `result`.
Finish(rec, result) ==
    [rec EXCEPT !.pc = "done", !.result = Some(result)]

Log(rec, c) == [rec EXCEPT !.calls = Append(@, c)]

Init ==
    /\ store \in [Subjects -> InitialUsers]
    /\ revoked = {}
    /\ issued = 0
    /\ enable_existing_token_revocation \in BOOLEAN
    /\ deployment \in Deployments
    /\ req = [r \in Reqs |-> IdleReq]
    /\ started = 0
    /\ codec = IdleCodec

----------------------------------------------------------------------------
(* Session codec *)

\* Session::from_request: the cookie is looked up, then parsed as JSON.
Session_from_request(cookie) ==
    IF ~cookie.present
    THEN [ok |-> FALSE, err |-> "FailedToExtractAuthCookie",
          because |-> "missing cookie"]
    ELSE IF ~cookie.wellformed
    THEN [ok |-> FALSE, err |-> "Json", because |-> "invalid json"]
    ELSE [ok |-> TRUE, err |-> "", because |-> ""]

----------------------------------------------------------------------------
(* User token store: GoogleUserRepository *)

\* GoogleUserRepository::get: a Firestore failure is returned as Err.
repository_get(id, io_ok) ==
    IF io_ok
    THEN [ok |-> TRUE, user |-> store[id], err |-> ""]
    ELSE [ok |-> FALSE, user |-> None, err |-> "Firestore"]

\* What GoogleUserRepository::update hands back to its caller: the result
\* of the Firestore write is bound to _firestore_result and dropped.
repository_update_result(write_ok) == "Ok"

\* Variant: only the refresh token of an existing document is replaced.
repository_update_store_merging(id, user, write_ok) ==
    IF ~write_ok THEN store
    ELSE IF IsNone(store[id]) THEN [store EXCEPT ![id] = Some(user)]
    ELSE [store EXCEPT ![id] =
            Some([Unwrap(store[id]) EXCEPT
                    !.refresh_token = user.refresh_token])]

\* The collection after the write of GoogleUserRepository::update:
\* the document at user.id is replaced by the serialized object
\* (the id field is skipped by serde), or nothing changes when the
\* write fails.
repository_update_store(id, user, write_ok) ==
    IF write_ok THEN [store EXCEPT ![id] = Some(user)] ELSE store

\* What the update of the repository injected into the monolithic handlers
\* (crate::web::repositories) hands back: Upsert(user) -> () | StoreError.
legacy_repository_update_result(write_ok) ==
    IF write_ok THEN "Ok" ELSE "Err"

----------------------------------------------------------------------------
(* Exchange engine: FireAuthClient::exchange_authorization_code *)

\* Variant: the CSRF comparison is skipped.
csrf_token_mismatch_never(csrf_token, state) == FALSE

\* The CSRF comparison that opens exchange_authorization_code.
csrf_token_mismatch(csrf_token, state) == csrf_token # state

\* Variant: the record is persisted after every successful exchange.
should_persist_always(response) == TRUE

\* `if let Some(token) = response.refresh_token()`
should_persist(response) == IsSome(response.refresh_token)

\* Variant: the granted scopes are not copied into the record.
new_google_user_without_scope(payload, response) ==
    [email |-> payload.email,
     refresh_token |-> response.refresh_token,
     scope |-> <<>>]

\* The GoogleUser built from the verified identity token and the response;
\* its refresh_token is the Some(token) the `if let` has matched.
new_google_user(payload, response) ==
    [email |-> payload.email,
     refresh_token |-> response.refresh_token,
     scope |-> IF IsSome(response.scopes) THEN Unwrap(response.scopes)
               ELSE <<>>]

\* The token of the existing record that revoke_existing_tokens goes on to
\* revoke: none when the lookup failed, found no record or no token.
existing_token_to_revoke(lookup) ==
    IF ~lookup.ok THEN None
    ELSE IF IsNone(lookup.user) THEN None
    ELSE Unwrap(lookup.user).refresh_token

\* Variant: a failed code exchange is tried once more.
after_exchange_retrying(rec, ok, response) ==
    IF ~ok /\ Len(rec.calls) < 2
    THEN rec
    ELSE IF ~ok
    THEN Finish(rec, new_error(rec.redirect_to, "TokenExchangeFailed"))
    ELSE [rec EXCEPT !.response = Some(response), !.pc = "validate_id_token"]

\* How exchange_authorization_code goes on after the code exchange has
\* returned.
after_exchange(rec, ok, response) ==
    IF ~ok
    THEN Finish(rec, new_error(rec.redirect_to, "TokenExchangeFailed"))
    ELSE [rec EXCEPT !.response = Some(response), !.pc = "validate_id_token"]

\* Variant: a failed verification is not treated as fatal.
after_validate_ignoring_failure(rec, ok, payload) ==
    IF should_persist(Unwrap(rec.response))
    THEN [rec EXCEPT !.payload = Some(payload), !.pc = "update"]
    ELSE Finish([rec EXCEPT !.payload = Some(payload)],
                new_success(rec.redirect_to, Unwrap(rec.response)))

\* How exchange_authorization_code goes on after validate_id_token has
\* returned.
after_validate(rec, ok, payload) ==
    IF ~ok
    THEN Finish(rec, new_error(rec.redirect_to, "TokenVerification"))
    ELSE IF should_persist(Unwrap(rec.response))
    THEN IF rec.revoke_existing_tokens
         THEN [rec EXCEPT !.payload = Some(payload),
                          !.pc = "revoke_existing_get"]
         ELSE [rec EXCEPT !.payload = Some(payload), !.pc = "update"]
    ELSE Finish([rec EXCEPT !.payload = Some(payload)],
                new_success(rec.redirect_to, Unwrap(rec.response)))

\* Variant: a failed write is propagated as the handler's error.
after_update_propagate(rec, update_result) ==
    IF rec.calls[Len(rec.calls)].ok
    THEN Finish(rec, new_success(rec.redirect_to, Unwrap(rec.response)))
    ELSE Finish(rec, error_response("Firestore", ""))

\* How exchange_authorization_code goes on after repository.update
\* returned: an Err is logged only.
after_update(rec, update_result) ==
    Finish(rec, new_success(rec.redirect_to, Unwrap(rec.response)))

\* GET /callback of fireauth2-server up to the first external call:
\* session decoding, config building, CSRF validation.
callback_start(r) ==
    /\ CanStart(r)
    /\ \E cookie \in Cookies, state \in CsrfTokens :
        LET s == Session_from_request(cookie)
            rec == [IdleReq EXCEPT
                      !.op = "callback",
                      !.csrf_token = cookie.csrf_token,
                      !.state = state,
                      !.redirect_to = cookie.redirect_to,
                      !.revoke_existing_tokens =
                          enable_existing_token_revocation]
        IN req' = [req EXCEPT ![r] =
              IF ~s.ok
              THEN Finish([IdleReq EXCEPT !.op = "callback"],
                          error_response(s.err, s.because))
              ELSE IF csrf_token_mismatch(rec.csrf_token, rec.state)
              THEN Finish(rec, new_error(rec.redirect_to,
                                         "CSRF token mismatch"))
              ELSE [rec EXCEPT !.pc = "exchange_code"]]
    /\ started' = started + 1
    /\ UNCHANGED <<store, revoked, issued, config, codec>>

\* The provider code exchange returns.
callback_exchange_code(r) ==
    /\ req[r].op = "callback"
    /\ req[r].pc = "exchange_code"
    /\ \E ok \in BOOLEAN, with_refresh \in BOOLEAN, scopes \in ScopeOpts :
        /\ (ok /\ with_refresh) => issued < MaxTokens
        /\ (~ok \/ ~with_refresh) => scopes = None
        /\ (~ok) => ~with_refresh
        /\ LET rec == Log(req[r], Call("exchange_code", "", None, ok))
               response == [refresh_token |-> IF with_refresh
                                              THEN Some(issued + 1) ELSE None,
                            scopes |-> scopes]
           IN /\ req' = [req EXCEPT ![r] = after_exchange(rec, ok, response)]
              /\ issued' = IF ok /\ with_refresh THEN issued + 1 ELSE issued
    /\ UNCHANGED <<store, revoked, config, codec, started>>

\* The identity-token verifier returns.
callback_validate_id_token(r) ==
    /\ req[r].op = "callback"
    /\ req[r].pc = "validate_id_token"
    /\ \E ok \in BOOLEAN, sub \in Subjects, email \in EmailOpts :
        /\ (~ok) => (sub = "sub_a" /\ email = None)
        /\ (~should_persist(Unwrap(req[r].response))) => email = None
        /\ LET rec == Log(req[r], Call("validate_id_token", "", None, ok))
           IN req' = [req EXCEPT ![r] =
                after_validate(rec, ok, [sub |-> sub, email |-> email])]
    /\ UNCHANGED <<store, revoked, issued, config, codec, started>>

\* Variant: a subject without a stored refresh token ends the callback
\* with UserNotFound, as /token does.
callback_revoke_existing_get_requiring_record(r) ==
    /\ deployment = "fireauth2-server"
    /\ req[r].op = "callback"
    /\ req[r].pc = "revoke_existing_get"
    /\ \E io_ok \in BOOLEAN :
        LET sub == Unwrap(req[r].payload).sub
            lookup == repository_get(sub, io_ok)
            rec == Log(req[r], Call("repository_get", sub, None, lookup.ok))
            token == existing_token_to_revoke(lookup)
        IN req' = [req EXCEPT ![r] =
             IF IsSome(token)
             THEN [rec EXCEPT !.existing = token,
                              !.pc = "revoke_existing_revoke"]
             ELSE Finish(rec, new_error(rec.redirect_to, "UserNotFound"))]
    /\ UNCHANGED <<store, revoked, issued, config, codec, started>>

\* revoke_existing_tokens: the lookup of the existing record returns.
callback_revoke_existing_get(r) ==
    /\ deployment = "fireauth2-server"
    /\ req[r].op = "callback"
    /\ req[r].pc = "revoke_existing_get"
    /\ \E io_ok \in BOOLEAN :
        LET sub == Unwrap(req[r].payload).sub
            lookup == repository_get(sub, io_ok)
            rec == Log(req[r], Call("repository_get", sub, None, lookup.ok))
            token == existing_token_to_revoke(lookup)
        IN req' = [req EXCEPT ![r] =
             IF IsSome(token)
             THEN [rec EXCEPT !.existing = token,
                              !.pc = "revoke_existing_revoke"]
             ELSE [rec EXCEPT !.pc = "update"]]
    /\ UNCHANGED <<store, revoked, issued, config, codec, started>>

\* revoke_existing_tokens: the revocation of the old refresh token returns;
\* its outcome is logged only.
callback_revoke_existing_revoke(r) ==
    /\ req[r].op = "callback"
    /\ req[r].pc = "revoke_existing_revoke"
    /\ \E ok \in BOOLEAN :
        /\ req' = [req EXCEPT ![r] =
             [Log(req[r], Call("revoke_token", "refresh_token",
                               req[r].existing, ok))
                EXCEPT !.pc = "update"]]
        /\ revoked' = IF ok THEN revoked \cup {Unwrap(req[r].existing)}
                      ELSE revoked
    /\ UNCHANGED <<store, issued, config, codec, started>>

\* Variant: the record is written under a fixed document id ("sub_a"), not
\* under the subject of the verified identity token.
callback_update_fixed_document(r) ==
    /\ deployment = "fireauth2-server"
    /\ req[r].op = "callback"
    /\ req[r].pc = "update"
    /\ \E write_ok \in BOOLEAN :
        LET user == new_google_user(Unwrap(req[r].payload),
                                    Unwrap(req[r].response))
            rec == Log(req[r], Call("repository_update", "sub_a",
                                    user.refresh_token, write_ok))
        IN /\ store' = repository_update_store("sub_a", user, write_ok)
           /\ req' = [req EXCEPT ![r] =
                after_update(rec, repository_update_result(write_ok))]
    /\ UNCHANGED <<revoked, issued, config, codec, started>>

\* repository.update returns and the success redirect is built.
callback_update(r) ==
    /\ deployment = "fireauth2-server"
    /\ req[r].op = "callback"
    /\ req[r].pc = "update"
    /\ \E write_ok \in BOOLEAN :
        LET sub == Unwrap(req[r].payload).sub
            user == new_google_user(Unwrap(req[r].payload),
                                    Unwrap(req[r].response))
            rec == Log(req[r], Call("repository_update", sub,
                                    user.refresh_token, write_ok))
        IN /\ store' = repository_update_store(sub, user, write_ok)
           /\ req' = [req EXCEPT ![r] =
                after_update(rec, repository_update_result(write_ok))]
    /\ UNCHANGED <<revoked, issued, config, codec, started>>

exchange_authorization_code(r) ==
    \/ callback_start(r)
    \/ callback_exchange_code(r)
    \/ callback_validate_id_token(r)
    \/ callback_revoke_existing_get(r)
    \/ callback_revoke_existing_revoke(r)
    \/ callback_update(r)

----------------------------------------------------------------------------
(* The monolithic GET /callback handler (src/web/routes/callback.rs).      *)
(* Session decoding, CSRF validation, code exchange, verification and the  *)
(* revocation of the old token are the steps above; it differs in what it  *)
(* does when the lookup of the existing record or the update fails.        *)

\* The lookup of the existing record returns; an Err ends the request with
\* an error redirect.
legacy_callback_existing_get(r) ==
    /\ deployment = "monolith"
    /\ req[r].op = "callback"
    /\ req[r].pc = "revoke_existing_get"
    /\ \E io_ok \in BOOLEAN :
        LET sub == Unwrap(req[r].payload).sub
            lookup == repository_get(sub, io_ok)
            rec == Log(req[r], Call("repository_get", sub, None, lookup.ok))
            token == existing_token_to_revoke(lookup)
        IN req' = [req EXCEPT ![r] =
             IF ~lookup.ok
             THEN Finish(rec, new_error(rec.redirect_to, lookup.err))
             ELSE IF IsSome(token)
             THEN [rec EXCEPT !.existing = token,
                              !.pc = "revoke_existing_revoke"]
             ELSE [rec EXCEPT !.pc = "update"]]
    /\ UNCHANGED <<store, revoked, issued, config, codec, started>>

\* google_user_repo.update returns; an Err ends the request with an error
\* redirect, otherwise the success redirect is built.
legacy_callback_update(r) ==
    /\ deployment = "monolith"
    /\ req[r].op = "callback"
    /\ req[r].pc = "update"
    /\ \E write_ok \in BOOLEAN :
        LET sub == Unwrap(req[r].payload).sub
            user == new_google_user(Unwrap(req[r].payload),
                                    Unwrap(req[r].response))
            rec == Log(req[r], Call("repository_update", sub,
                                    user.refresh_token, write_ok))
        IN /\ store' = repository_update_store(sub, user, write_ok)
           /\ req' = [req EXCEPT ![r] =
                IF legacy_repository_update_result(write_ok) = "Err"
                THEN Finish(rec, new_error(rec.redirect_to, "Firestore"))
                ELSE Finish(rec, new_success(rec.redirect_to,
                                             Unwrap(rec.response)))]
    /\ UNCHANGED <<revoked, issued, config, codec, started>>

legacy_exchange_authorization_code(r) ==
    \/ legacy_callback_existing_get(r)
    \/ legacy_callback_update(r)

----------------------------------------------------------------------------
(* Token lifecycle manager *)

\* Variant: the routes take no FirebaseUser, any caller is let in.
FirebaseUser_from_request_anonymous(caller) ==
    [ok |-> TRUE, err |-> ""]

\* The FirebaseUser extractor in the signature of /token, /revoke and
\* /introspect: the handler body runs only for a caller with a valid
\* session of the identity broker.
FirebaseUser_from_request(caller) ==
    IF caller.authenticated THEN [ok |-> TRUE, err |-> ""]
    ELSE [ok |-> FALSE, err |-> "FirebaseAuth"]

\* Variant: the user id is taken from the request, not from the caller's
\* session ("sub_a" is what the client asks for).
GoogleUserId_try_from_client_supplied(caller) ==
    [ok |-> TRUE, err |-> "", id |-> "sub_a"]

\* GoogleUserId::try_from: the caller of /token and /revoke is resolved to
\* the Google subject id among the identities of the broker's session.
GoogleUserId_try_from(caller) ==
    IF IsNone(caller.google_identity)
    THEN [ok |-> FALSE, err |-> "FirebaseUserMissingGoogleIdentity",
          id |-> ""]
    ELSE [ok |-> TRUE, err |-> "", id |-> Unwrap(caller.google_identity)]

\* Variant: a record without refresh token is reported like a missing one.
refresh_token_of_conflating(lookup) ==
    IF ~lookup.ok
    THEN [err |-> lookup.err, because |-> "", token |-> None]
    ELSE IF IsNone(lookup.user) \/ IsNone(Unwrap(lookup.user).refresh_token)
    THEN [err |-> "UserNotFound", because |-> "No Google user found",
          token |-> None]
    ELSE [err |-> "", because |-> "",
          token |-> Unwrap(lookup.user).refresh_token]

\* exchange_refresh_token: from the looked-up record to the refresh token
\* that is sent to the provider, or the error that ends the call.
refresh_token_of(lookup) ==
    IF ~lookup.ok
    THEN [err |-> lookup.err, because |-> "", token |-> None]
    ELSE IF IsNone(lookup.user)
    THEN [err |-> "UserNotFound", because |-> "No Google user found",
          token |-> None]
    ELSE IF IsNone(Unwrap(lookup.user).refresh_token)
    THEN [err |-> "TokenExchangeFailed",
          because |-> "No refresh token found for user", token |-> None]
    ELSE [err |-> "", because |-> "",
          token |-> Unwrap(lookup.user).refresh_token]

\* POST /token up to the first external call.
token_start(r) ==
    /\ CanStart(r)
    /\ \E caller \in Callers :
        LET firebase_user == FirebaseUser_from_request(caller)
            id == GoogleUserId_try_from(caller)
            rec == [IdleReq EXCEPT !.op = "token", !.caller = caller]
        IN req' = [req EXCEPT ![r] =
             IF ~firebase_user.ok
             THEN Finish(rec, error_response(firebase_user.err, ""))
             ELSE IF ~id.ok THEN Finish(rec, error_response(id.err, ""))
             ELSE [rec EXCEPT !.user_id = id.id, !.pc = "get"]]
    /\ started' = started + 1
    /\ UNCHANGED <<store, revoked, issued, config, codec>>

\* exchange_refresh_token: repository.get returns.
token_get(r) ==
    /\ req[r].op = "token"
    /\ req[r].pc = "get"
    /\ \E io_ok \in BOOLEAN :
        LET lookup == repository_get(req[r].user_id, io_ok)
            rec == Log(req[r], Call("repository_get", req[r].user_id,
                                    None, lookup.ok))
            found == refresh_token_of(lookup)
        IN req' = [req EXCEPT ![r] =
             IF found.err # ""
             THEN Finish(rec, error_response(found.err, found.because))
             ELSE [rec EXCEPT !.existing = found.token, !.pc = "refresh"]]
    /\ UNCHANGED <<store, revoked, issued, config, codec, started>>

\* exchange_refresh_token: the provider refresh call returns.
token_refresh(r) ==
    /\ req[r].op = "token"
    /\ req[r].pc = "refresh"
    /\ \E ok \in BOOLEAN :
        LET rec == Log(req[r], Call("exchange_refresh_token", "",
                                    req[r].existing, ok))
        IN req' = [req EXCEPT ![r] =
             IF ok THEN Finish(rec, ok_response)
             ELSE Finish(rec, error_response("TokenExchangeFailed",
                                             "provider"))]
    /\ UNCHANGED <<store, revoked, issued, config, codec, started>>

exchange_refresh_token(r) ==
    \/ token_start(r)
    \/ token_get(r)
    \/ token_refresh(r)

\* revoke_token: the stored refresh token to revoke as well, if any.
stored_refresh_token(user) ==
    IF IsNone(user) THEN None ELSE Unwrap(user).refresh_token

\* Variant: a failed access-token revocation does not end the call.
after_access_revocation_ignoring_failure(rec, ok) ==
    IF rec.revoke_refresh_token
    THEN [rec EXCEPT !.pc = "get"]
    ELSE Finish(rec, ok_response)

\* Variant: the stored refresh token is looked up whatever the flag says.
after_access_revocation_always_cascade(rec, ok) ==
    IF ~ok
    THEN Finish(rec, error_response("TokenRevocationFailed", ""))
    ELSE [rec EXCEPT !.pc = "get"]

\* How revoke_token goes on after the access-token revocation has returned.
after_access_revocation(rec, ok) ==
    IF ~ok
    THEN Finish(rec, error_response("TokenRevocationFailed", ""))
    ELSE IF rec.revoke_refresh_token
    THEN [rec EXCEPT !.pc = "get"]
    ELSE Finish(rec, ok_response)

\* POST /revoke of fireauth2-server up to the first external call.
revoke_start(r) ==
    /\ deployment = "fireauth2-server"
    /\ CanStart(r)
    /\ \E caller \in Callers, revoke_refresh_token \in BOOLEAN :
        LET firebase_user == FirebaseUser_from_request(caller)
            id == GoogleUserId_try_from(caller)
            rec == [IdleReq EXCEPT !.op = "revoke", !.caller = caller]
        IN req' = [req EXCEPT ![r] =
             IF ~firebase_user.ok
             THEN Finish(rec, error_response(firebase_user.err, ""))
             ELSE IF ~id.ok THEN Finish(rec, error_response(id.err, ""))
             ELSE [rec EXCEPT !.user_id = id.id,
                              !.revoke_refresh_token = revoke_refresh_token,
                              !.pc = "revoke_access"]]
    /\ started' = started + 1
    /\ UNCHANGED <<store, revoked, issued, config, codec>>

\* revoke_token: the revocation of the access token returns.
revoke_access(r) ==
    /\ deployment = "fireauth2-server"
    /\ req[r].op = "revoke"
    /\ req[r].pc = "revoke_access"
    /\ \E ok \in BOOLEAN :
        LET rec == Log(req[r], Call("revoke_token", "access_token", None, ok))
        IN req' = [req EXCEPT ![r] = after_access_revocation(rec, ok)]
    /\ UNCHANGED <<store, revoked, issued, config, codec, started>>

\* revoke_token: repository.get returns.
revoke_get(r) ==
    /\ req[r].op = "revoke"
    /\ req[r].pc = "get"
    /\ \E io_ok \in BOOLEAN :
        LET lookup == repository_get(req[r].user_id, io_ok)
            rec == Log(req[r], Call("repository_get", req[r].user_id,
                                    None, lookup.ok))
            token == stored_refresh_token(lookup.user)
        IN req' = [req EXCEPT ![r] =
             IF ~lookup.ok
             THEN Finish(rec, error_response(lookup.err, ""))
             ELSE IF IsNone(token)
             THEN Finish(rec, ok_response)
             ELSE [rec EXCEPT !.existing = token, !.pc = "revoke_refresh"]]
    /\ UNCHANGED <<store, revoked, issued, config, codec, started>>

\* Variant: a failed refresh-token revocation is logged only, as in the
\* callback.
after_refresh_revocation_best_effort(rec, ok) ==
    Finish(rec, ok_response)

\* How revoke_token ends after the refresh-token revocation has returned:
\* the `?` on revoke_revocable_token surfaces a failure.
after_refresh_revocation(rec, ok) ==
    IF ok THEN Finish(rec, ok_response)
    ELSE Finish(rec, error_response("TokenRevocationFailed", ""))

\* Variant: a revoked refresh token is cleared from the stored record.
revoke_refresh_clearing_record(r) ==
    /\ req[r].op = "revoke"
    /\ req[r].pc = "revoke_refresh"
    /\ \E ok \in BOOLEAN :
        /\ LET rec == Log(req[r], Call("revoke_token", "refresh_token",
                                       req[r].existing, ok))
           IN req' = [req EXCEPT ![r] = after_refresh_revocation(rec, ok)]
        /\ revoked' = IF ok THEN revoked \cup {Unwrap(req[r].existing)}
                      ELSE revoked
        /\ store' = IF ok /\ IsSome(store[req[r].user_id])
                    THEN [store EXCEPT ![req[r].user_id] =
                            Some([Unwrap(@) EXCEPT !.refresh_token = None])]
                    ELSE store
    /\ UNCHANGED <<issued, config, codec, started>>

\* revoke_token: the revocation of the stored refresh token returns.
revoke_refresh(r) ==
    /\ req[r].op = "revoke"
    /\ req[r].pc = "revoke_refresh"
    /\ \E ok \in BOOLEAN :
        /\ LET rec == Log(req[r], Call("revoke_token", "refresh_token",
                                       req[r].existing, ok))
           IN req' = [req EXCEPT ![r] = after_refresh_revocation(rec, ok)]
        /\ revoked' = IF ok THEN revoked \cup {Unwrap(req[r].existing)}
                      ELSE revoked
    /\ UNCHANGED <<store, issued, config, codec, started>>

revoke_token(r) ==
    \/ revoke_start(r)
    \/ revoke_access(r)
    \/ revoke_get(r)
    \/ revoke_refresh(r)

----------------------------------------------------------------------------
(* The monolithic POST /revoke handler (src/web/routes/revoke.rs): the     *)
(* access token is revoked first, the caller's Google identity is resolved *)
(* only when the refresh token is to be revoked too.                       *)

legacy_revoke_start(r) ==
    /\ deployment = "monolith"
    /\ CanStart(r)
    /\ \E caller \in Callers, revoke_refresh_token \in BOOLEAN :
        LET firebase_user == FirebaseUser_from_request(caller)
            id == GoogleUserId_try_from(caller)
            rec == [IdleReq EXCEPT !.op = "revoke", !.caller = caller]
        IN req' = [req EXCEPT ![r] =
             IF ~firebase_user.ok
             THEN Finish(rec, error_response(firebase_user.err, ""))
             ELSE [rec EXCEPT !.user_id = id.id,
                              !.revoke_refresh_token = revoke_refresh_token,
                              !.pc = "revoke_access"]]
    /\ started' = started + 1
    /\ UNCHANGED <<store, revoked, issued, config, codec>>

legacy_revoke_access(r) ==
    /\ deployment = "monolith"
    /\ req[r].op = "revoke"
    /\ req[r].pc = "revoke_access"
    /\ \E ok \in BOOLEAN :
        LET rec == Log(req[r], Call("revoke_token", "access_token", None, ok))
        IN req' = [req EXCEPT ![r] =
             IF ~ok
             THEN Finish(rec, error_response("TokenRevocationFailed", ""))
             ELSE IF rec.revoke_refresh_token /\ rec.user_id = ""
             THEN Finish(rec, error_response(
                                "FirebaseUserMissingGoogleIdentity", ""))
             ELSE after_access_revocation(rec, ok)]
    /\ UNCHANGED <<store, revoked, issued, config, codec, started>>

legacy_revoke_token(r) ==
    \/ legacy_revoke_start(r)
    \/ legacy_revoke_access(r)

\* Variant: a form without token_type_hint is read as an access token.
TokenIntrospectionTypeHint_default_access_token(form_hint) ==
    IF IsNone(form_hint) THEN "access_token" ELSE Unwrap(form_hint)

\* The token_type_hint of the deserialized form: #[serde(default)] fills a
\* field the form leaves out with the #[default] variant, IdToken.
TokenIntrospectionTypeHint_default(form_hint) ==
    IF IsNone(form_hint) THEN "id_token" ELSE Unwrap(form_hint)

\* POST /introspect up to the first external call: an access token is
\* turned down, an identity token is handed to the verifier.  The slot
\* keeps the hint as the form carried it.
introspect_start(r) ==
    /\ CanStart(r)
    /\ \E caller \in Callers, form_hint \in FormTypeHints :
        LET firebase_user == FirebaseUser_from_request(caller)
            token_type_hint == TokenIntrospectionTypeHint_default(form_hint)
            rec == [IdleReq EXCEPT !.op = "introspect", !.caller = caller,
                                   !.token_type_hint = form_hint]
        IN req' = [req EXCEPT ![r] =
             IF ~firebase_user.ok
             THEN Finish(rec, error_response(firebase_user.err, ""))
             ELSE IF token_type_hint = "access_token"
             THEN Finish(rec, unprocessable_entity(
                                "access_token introspection not allowed"))
             ELSE [rec EXCEPT !.pc = "validate_id_token"]]
    /\ started' = started + 1
    /\ UNCHANGED <<store, revoked, issued, config, codec>>

\* validate_id_token returns to /introspect.
introspect_validate_id_token(r) ==
    /\ req[r].op = "introspect"
    /\ req[r].pc = "validate_id_token"
    /\ \E ok \in BOOLEAN :
        LET rec == Log(req[r], Call("validate_id_token", "", None, ok))
        IN req' = [req EXCEPT ![r] =
             IF ok THEN Finish(rec, ok_response)
             ELSE Finish(rec, error_response("TokenVerification", ""))]
    /\ UNCHANGED <<store, revoked, issued, config, codec, started>>

introspect(r) ==
    \/ introspect_start(r)
    \/ introspect_validate_id_token(r)

Next ==
    \E r \in Reqs :
        \/ exchange_authorization_code(r)
        \/ legacy_exchange_authorization_code(r)
        \/ exchange_refresh_token(r)
        \/ revoke_token(r)
        \/ legacy_revoke_token(r)
        \/ introspect(r)

Spec == Init /\ [][Next]_vars

\* An external call that has been issued returns: the handler of a request
\* that has been accepted is polled until it has produced its response.
Continue(r) ==
    \/ callback_exchange_code(r)
    \/ callback_validate_id_token(r)
    \/ callback_revoke_existing_get(r)
    \/ callback_revoke_existing_revoke(r)
    \/ callback_update(r)
    \/ legacy_exchange_authorization_code(r)
    \/ token_get(r)
    \/ token_refresh(r)
    \/ revoke_access(r)
    \/ revoke_get(r)
    \/ revoke_refresh(r)
    \/ legacy_revoke_access(r)
    \/ introspect_validate_id_token(r)

FairSpec == Spec /\ \A r \in Reqs : WF_vars(Continue(r))

\* The client closes the connection while exchange_authorization_code is
\* waiting for an external call.  The handler awaits every call in line and
\* spawns no task, so the call in flight belongs to the handler's future and
\* is dropped with it: the revocation or the write has reached the provider
\* or the store by then (`completed`), or it is cancelled; no later step of
\* the handler is taken and no response is produced.
callback_abort(r) ==
    /\ req[r].op = "callback"
    /\ req[r].pc \in {"exchange_code", "validate_id_token",
                      "revoke_existing_get", "revoke_existing_revoke",
                      "update"}
    /\ \E completed \in BOOLEAN :
        /\ completed => req[r].pc \in {"revoke_existing_revoke", "update"}
        /\ LET sub == Unwrap(req[r].payload).sub
               user == new_google_user(Unwrap(req[r].payload),
                                       Unwrap(req[r].response))
               rec == IF ~completed THEN req[r]
                      ELSE IF req[r].pc = "update"
                      THEN Log(req[r], Call("repository_update", sub,
                                            user.refresh_token, TRUE))
                      ELSE Log(req[r], Call("revoke_token", "refresh_token",
                                            req[r].existing, TRUE))
           IN /\ req' = [req EXCEPT ![r] = [rec EXCEPT !.pc = "aborted"]]
              /\ store' = IF completed /\ req[r].pc = "update"
                          THEN repository_update_store(sub, user, TRUE)
                          ELSE store
              /\ revoked' = IF completed
                               /\ req[r].pc = "revoke_existing_revoke"
                            THEN revoked \cup {Unwrap(req[r].existing)}
                            ELSE revoked
    /\ UNCHANGED <<issued, config, codec, started>>

AbortNext ==
    \/ Next
    \/ \E r \in Reqs : callback_abort(r)

\* The requests of Spec with clients that may close the connection.
AbortSpec == Init /\ [][AbortNext]_vars

----------------------------------------------------------------------------
(* Parameter model: text, JSON values and the serde implementations of the *)
(* extra parameters.  A text is a sequence of words and separators.        *)

MaxPrompts == 2     \* longest prompt list that is parsed or serialized

Space == " "
Comma == ","
PromptNames == {"none", "consent", "select_account"}
\* "login" stands for any token that names no prompt.
Words == PromptNames \cup {"login"}

\* All sequences over S of length at most n.
SeqsUpTo(S, n) == UNION {[1..k -> S] : k \in 0..n}

\* slice::join
RECURSIVE join(_, _)
join(list, sep) ==
    IF Len(list) = 0 THEN <<>>
    ELSE IF Len(list) = 1 THEN <<list[1]>>
    ELSE <<list[1], sep>> \o join(Tail(list), sep)

\* str::split(sep): the parts between the separators, empty parts included.
RECURSIVE split(_, _)
split(text, sep) ==
    IF \A i \in 1..Len(text) : text[i] # sep THEN <<text>>
    ELSE LET i == CHOOSE k \in 1..Len(text) :
                      text[k] = sep /\ \A j \in 1..(k - 1) : text[j] # sep
         IN <<SubSeq(text, 1, i - 1)>>
                \o split(SubSeq(text, i + 1, Len(text)), sep)

\* str::trim
RECURSIVE trim(_)
trim(text) ==
    IF Len(text) = 0 THEN text
    ELSE IF Head(text) = Space THEN trim(Tail(text))
    ELSE IF text[Len(text)] = Space THEN trim(SubSeq(text, 1, Len(text) - 1))
    ELSE text

\* str::split_whitespace: the non-empty runs between white space.
split_whitespace(text) ==
    LET parts == split(text, Space)
    IN SelectSeq(parts, LAMBDA part : Len(part) > 0)

\* JSON values as serde sees them.
JString(text) == [kind |-> "string", text |-> text, items |-> <<>>,
                  flag |-> FALSE]
JArray(items) == [kind |-> "array", text |-> <<>>, items |-> items,
                  flag |-> FALSE]
JBool(b) == [kind |-> "bool", text |-> <<>>, items |-> <<>>, flag |-> b]

Parsed(value) == [ok |-> TRUE, value |-> Some(value), err |-> "",
                  token |-> <<>>]
Failed(err, token) == [ok |-> FALSE, value |-> None, err |-> err,
                       token |-> token]

\* Prompt::from_str
Prompt_from_str(part) ==
    IF Len(part) = 1 /\ part[1] \in PromptNames
    THEN Parsed(part[1])
    ELSE Failed("InvalidPromptValue", part)

\* The first failure of a sequence of parse results, or the parsed values.
collect(results) ==
    IF \E i \in 1..Len(results) : ~results[i].ok
    THEN results[CHOOSE i \in 1..Len(results) :
                    ~results[i].ok /\ \A j \in 1..(i - 1) : results[j].ok]
    ELSE Parsed([i \in 1..Len(results) |-> Unwrap(results[i].value)])

\* Variant: the string form is split at commas and at white space.
prompts_of_string_any_separator(text) ==
    LET parts == split_whitespace(
                    [i \in 1..Len(text) |->
                        IF text[i] = Comma THEN Space ELSE text[i]])
    IN collect([i \in 1..Len(parts) |-> Prompt_from_str(parts[i])])

\* PromptList::deserialize, PromptInput::String: the string is split at
\* commas, empty parts are dropped, every part is trimmed and parsed.
prompts_of_string(text) ==
    LET parts == SelectSeq(split(text, Comma),
                           LAMBDA part : Len(trim(part)) > 0)
    IN collect([i \in 1..Len(parts) |-> Prompt_from_str(trim(parts[i]))])

\* PromptList::deserialize: the untagged PromptInput is tried as a list of
\* Prompt, then as a string; input that matches neither variant fails with
\* serde's error for untagged enums.
PromptList_deserialize(json) ==
    IF json.kind = "array"
    THEN IF \A i \in 1..Len(json.items) : json.items[i] \in PromptNames
         THEN Parsed(json.items)
         ELSE Failed("data did not match any variant of untagged enum",
                     <<>>)
    ELSE IF json.kind = "string"
    THEN LET parsed == prompts_of_string(json.text)
         IN IF parsed.ok THEN parsed
            ELSE Failed("Invalid prompt value", parsed.token)
    ELSE Failed("data did not match any variant of untagged enum", <<>>)

\* PromptList::serialize: always a string, the prompts joined by a space.
PromptList_serialize(prompt) == JString(join(prompt, Space))

\* PromptList::default
PromptList_default == <<"none">>

\* IncludeGrantedScopes::deserialize: a boolean or the strings "true" and
\* "false".
IncludeGrantedScopes_deserialize(json) ==
    IF json.kind = "bool" THEN Parsed(json.flag)
    ELSE IF json.kind = "string" /\ json.text \in {<<"true">>, <<"false">>}
    THEN Parsed(json.text = <<"true">>)
    ELSE Failed("unknown variant", json.text)

\* AccessType, derived Deserialize with rename_all = "lowercase".
AccessType_deserialize(json) ==
    IF json.kind = "string" /\ json.text \in {<<"online">>, <<"offline">>}
    THEN Parsed(json.text[1])
    ELSE Failed("unknown variant", json.text)

\* The prompt field as the monolith declares it: Vec<Prompt> with the
\* derived Serialize, an array of the prompt names.
legacy_prompt_serialize(prompt) == JArray(prompt)

\* deserialize_prompt_vec of the monolith: PromptInput::String holds a
\* Prompt, so a string has to name exactly one prompt.
legacy_deserialize_prompt_vec(json) ==
    IF json.kind = "array"
         /\ \A i \in 1..Len(json.items) : json.items[i] \in PromptNames
    THEN Parsed(json.items)
    ELSE IF json.kind = "string" /\ Len(json.text) = 1
              /\ json.text[1] \in PromptNames
    THEN prompts_of_string(json.text)
    ELSE Failed("data did not match any variant of untagged enum", <<>>)

prompt_serialize(prompt) ==
    IF deployment = "monolith" THEN legacy_prompt_serialize(prompt)
    ELSE PromptList_serialize(prompt)

prompt_deserialize(json) ==
    IF deployment = "monolith" THEN legacy_deserialize_prompt_vec(json)
    ELSE PromptList_deserialize(json)

\* RequestAccessTokenExtraParams, derived Serialize: a JSON object, each
\* key present (Some) or left out (None); login_hint is skipped when None.
RequestAccessTokenExtraParams_serialize(params) ==
    [include_granted_scopes |-> Some(JBool(params.include_granted_scopes)),
     login_hint |-> IF IsNone(params.login_hint) THEN None
                    ELSE Some(JString(Unwrap(params.login_hint))),
     access_type |-> Some(JString(<<params.access_type>>)),
     prompt |-> Some(prompt_serialize(params.prompt))]

\* RequestAccessTokenExtraParams, derived Deserialize: a field with
\* #[serde(default)] takes its default when the key is missing.
RequestAccessTokenExtraParams_deserialize(object) ==
    LET include_granted_scopes ==
            IF IsNone(object.include_granted_scopes) THEN Parsed(TRUE)
            ELSE IncludeGrantedScopes_deserialize(
                    Unwrap(object.include_granted_scopes))
        login_hint ==
            IF IsNone(object.login_hint) THEN Parsed(None)
            ELSE IF Unwrap(object.login_hint).kind = "string"
            THEN Parsed(Some(Unwrap(object.login_hint).text))
            ELSE Failed("invalid type", <<>>)
        access_type ==
            IF IsNone(object.access_type) THEN Parsed("online")
            ELSE AccessType_deserialize(Unwrap(object.access_type))
        prompt ==
            IF IsNone(object.prompt) THEN Parsed(PromptList_default)
            ELSE prompt_deserialize(Unwrap(object.prompt))
    IN IF ~include_granted_scopes.ok THEN include_granted_scopes
       ELSE IF ~login_hint.ok THEN login_hint
       ELSE IF ~access_type.ok THEN access_type
       ELSE IF ~prompt.ok THEN prompt
       ELSE Parsed([include_granted_scopes |->
                        Unwrap(include_granted_scopes.value),
                    login_hint |-> Unwrap(login_hint.value),
                    access_type |-> Unwrap(access_type.value),
                    prompt |-> Unwrap(prompt.value)])

----------------------------------------------------------------------------
(* Session codec: the payload of the auth cookie *)

COOKIE_MAX_AGE == 300

AccessTypes == {"online", "offline"}
LoginHints == {None, Some(<<"user@example.com">>)}
PromptLists == SeqsUpTo(PromptNames, MaxPrompts)

\* Every value of RequestAccessTokenExtraParams.
ExtraParams ==
    [include_granted_scopes : BOOLEAN, login_hint : LoginHints,
     access_type : AccessTypes, prompt : PromptLists]

\* Every session that /authorize can put into the cookie.
Sessions ==
    [pkce_verifier : {"verifier_1"}, csrf_token : CsrfTokens,
     redirect_to : {RedirectTarget}, extra_params : ExtraParams]

\* Session, derived Serialize (serde_json::to_string in into_cookie).
Session_serialize(session) ==
    [pkce_verifier |-> Some(JString(<<session.pkce_verifier>>)),
     csrf_token |-> Some(JString(<<session.csrf_token>>)),
     redirect_to |-> Some(JString(<<session.redirect_to>>)),
     extra_params |->
        Some(RequestAccessTokenExtraParams_serialize(session.extra_params))]

\* Session::into_cookie
Session_into_cookie(session) ==
    [present |-> TRUE, wellformed |-> TRUE,
     value |-> Session_serialize(session),
     http_only |-> TRUE, secure |-> TRUE, same_site |-> "Lax",
     max_age |-> COOKIE_MAX_AGE]

\* Session, derived Deserialize (serde_json::from_str in from_request):
\* every field is required.
Session_deserialize(object) ==
    IF \E f \in {"pkce_verifier", "csrf_token", "redirect_to"} :
            IsNone(object[f]) \/ Unwrap(object[f]).kind # "string"
    THEN Failed("Json", <<>>)
    ELSE IF IsNone(object.extra_params) THEN Failed("Json", <<>>)
    ELSE LET extra_params == RequestAccessTokenExtraParams_deserialize(
                                Unwrap(object.extra_params))
         IN IF ~extra_params.ok THEN Failed("Json", extra_params.token)
            ELSE Parsed([pkce_verifier |->
                            Unwrap(object.pkce_verifier).text[1],
                         csrf_token |-> Unwrap(object.csrf_token).text[1],
                         redirect_to |-> Unwrap(object.redirect_to).text[1],
                         extra_params |-> Unwrap(extra_params.value)])

\* Session::from_request on the cookie that the browser sends back.
Session_from_cookie(cookie) ==
    LET found == Session_from_request(cookie)
    IN IF ~found.ok THEN Failed(found.err, <<>>)
       ELSE Session_deserialize(cookie.value)

\* GET /authorize puts the session into the cookie.
authorize_into_cookie ==
    /\ codec = IdleCodec
    /\ \E session \in Sessions :
        codec' = [fn |-> "into_cookie", input |-> session,
                  output |-> Session_into_cookie(session)]
    /\ UNCHANGED <<store, revoked, issued, config, req, started>>

\* GET /callback reads the session out of the cookie of the flow.
callback_from_request ==
    /\ codec.fn = "into_cookie"
    /\ codec' = [fn |-> "from_request", input |-> codec.output,
                 output |-> Session_from_cookie(codec.output)]
    /\ UNCHANGED <<store, revoked, issued, config, req, started>>

----------------------------------------------------------------------------
(* Authorization request builder *)

MaxScopes == 2      \* longest scope list that is parsed

ScopeNames == {"read", "write"}

\* Variant: an input without any scope yields the empty list.
ScopeList_deserialize_allowing_empty(json) ==
    IF json.kind = "string"
    THEN Parsed(split_whitespace(json.text))
    ELSE IF json.kind = "array"
    THEN Parsed([i \in 1..Len(json.items) |-> <<json.items[i]>>])
    ELSE Failed("invalid type", <<>>)

\* ScopeList::deserialize: visit_str splits at white space, visit_seq takes
\* the strings of the array; a list without any scope is an error.
ScopeList_deserialize(json) ==
    IF json.kind = "string"
    THEN LET scopes == split_whitespace(json.text)
         IN IF Len(scopes) = 0
            THEN Failed("scopes string must contain at least one scope",
                        <<>>)
            ELSE Parsed(scopes)
    ELSE IF json.kind = "array"
    THEN LET scopes == [i \in 1..Len(json.items) |-> <<json.items[i]>>]
         IN IF Len(scopes) = 0
            THEN Failed("scopes array must contain at least one scope",
                        <<>>)
            ELSE Parsed(scopes)
    ELSE Failed("invalid type", <<>>)

\* RequestAccessTokenPayload, derived Deserialize: scope is required, the
\* extra parameters are flattened into the same object.
RequestAccessTokenPayload_deserialize(object) ==
    IF IsNone(object.scope) THEN Failed("missing field scope", <<>>)
    ELSE LET scopes == ScopeList_deserialize(Unwrap(object.scope))
             extra_params == RequestAccessTokenExtraParams_deserialize(
                                [include_granted_scopes |->
                                    object.include_granted_scopes,
                                 login_hint |-> object.login_hint,
                                 access_type |-> object.access_type,
                                 prompt |-> object.prompt])
         IN IF ~scopes.ok THEN scopes
            ELSE IF ~extra_params.ok THEN extra_params
            ELSE Parsed([scopes |-> Unwrap(scopes.value),
                         extra_params |-> Unwrap(extra_params.value)])

\* The texts of a list joined into one text.
RECURSIVE join_all(_, _)
join_all(texts, sep) ==
    IF Len(texts) = 0 THEN <<>>
    ELSE IF Len(texts) = 1 THEN texts[1]
    ELSE texts[1] \o <<sep>> \o join_all(Tail(texts), sep)

Pair(name, value) == [name |-> name, value |-> value]

\* Variant: a parameter that equals its default is left out.
to_extra_params_skipping_defaults(params) ==
    (IF params.access_type = "online" THEN <<>>
     ELSE <<Pair("access_type", <<params.access_type>>)>>)
    \o (IF params.include_granted_scopes
        THEN <<Pair("include_granted_scopes", <<"true">>)>> ELSE <<>>)
    \o (IF IsSome(params.login_hint)
        THEN <<Pair("login_hint", Unwrap(params.login_hint))>> ELSE <<>>)
    \o (IF params.prompt = PromptList_default THEN <<>>
        ELSE <<Pair("prompt", join(params.prompt, Space))>>)

\* RequestAccessTokenExtraParams::to_extra_params
to_extra_params(params) ==
    <<Pair("access_type", <<params.access_type>>)>>
    \o (IF params.include_granted_scopes
        THEN <<Pair("include_granted_scopes", <<"true">>)>> ELSE <<>>)
    \o (IF IsSome(params.login_hint)
        THEN <<Pair("login_hint", Unwrap(params.login_hint))>> ELSE <<>>)
    \o <<Pair("prompt", join(params.prompt, Space))>>

\* FireAuthClient::request_access_token: the authorization URL carries the
\* CSRF token, the PKCE challenge, the scopes and every extra parameter.
request_access_token(request, csrf_token) ==
    [pkce_verifier |-> "verifier_1",
     csrf_token |-> csrf_token,
     url |-> [endpoint |-> "auth_url",
              query |-> <<Pair("response_type", <<"code">>),
                          Pair("state", <<csrf_token>>),
                          Pair("code_challenge", <<"challenge_1">>),
                          Pair("code_challenge_method", <<"S256">>),
                          Pair("scope", join_all(request.scopes, Space))>>
                        \o to_extra_params(request.extra_params)]]

\* GoogleOAuthClientConfig::scopes: the scopes the service itself asks for.
GoogleOAuthClientConfig_scopes ==
    <<<<"email">>, <<"openid">>, <<"profile">>,
      <<"https://www.googleapis.com/auth/datastore">>>>

\* GoogleOAuthClient::request_access_token of the monolith: the URL carries
\* the CSRF token, the PKCE challenge, the scopes of the client
\* configuration and every extra parameter.
legacy_request_access_token(extra_params, csrf_token) ==
    [pkce_verifier |-> "verifier_1",
     csrf_token |-> csrf_token,
     url |-> [endpoint |-> "auth_url",
              query |-> <<Pair("response_type", <<"code">>),
                          Pair("state", <<csrf_token>>),
                          Pair("code_challenge", <<"challenge_1">>),
                          Pair("code_challenge_method", <<"S256">>),
                          Pair("scope",
                               join_all(GoogleOAuthClientConfig_scopes,
                                        Space))>>
                        \o to_extra_params(extra_params)]]

\* The words of a list separated by the text sep.
RECURSIVE separated(_, _)
separated(list, sep) ==
    IF Len(list) = 0 THEN <<>>
    ELSE IF Len(list) = 1 THEN <<list[1]>>
    ELSE <<list[1]>> \o sep \o separated(Tail(list), sep)

Separators == {<<Comma>>, <<Space>>, <<Comma, Space>>}

\* What a client can send as `prompt`: an array of words, or the words in
\* one string, separated by commas, by spaces or by both.
PromptInputs ==
    {JArray(list) : list \in SeqsUpTo(Words, MaxPrompts)}
    \cup {JString(separated(list, sep)) :
            list \in SeqsUpTo(Words, MaxPrompts), sep \in Separators}

\* What a client can send as `scope`.
ScopeInputs ==
    {JArray(list) : list \in SeqsUpTo(ScopeNames, MaxScopes)}
    \cup {JString(text) :
            text \in {<<>>, <<Space>>, <<"read">>,
                      <<"read", Space, "write">>,
                      <<Space, "read", Space, Space, "write">>}}

Optional(S) == {None} \cup {Some(x) : x \in S}

\* The query of GET /authorize apart from redirect_uri.
AuthorizeQueries ==
    [scope : Optional(ScopeInputs),
     include_granted_scopes :
        Optional({JBool(TRUE), JBool(FALSE), JString(<<"true">>),
                  JString(<<"false">>)}),
     login_hint : Optional({JString(<<"user@example.com">>)}),
     access_type : Optional({JString(<<"online">>), JString(<<"offline">>)}),
     prompt : Optional(PromptInputs)]

\* GET /authorize: the query is deserialized into the payload.
authorize_deserialize_query ==
    /\ codec = IdleCodec
    /\ \E query \in AuthorizeQueries :
        codec' = [fn |-> "deserialize_query", input |-> query,
                  output |-> RequestAccessTokenPayload_deserialize(query)]
    /\ UNCHANGED <<store, revoked, issued, config, req, started>>

\* GET /authorize: the authorization URL is built for the payload.
authorize_request_access_token ==
    /\ codec.fn = "deserialize_query"
    /\ codec.output.ok
    /\ \E csrf_token \in CsrfTokens :
        codec' = [fn |-> "request_access_token",
                  input |-> [query |-> codec.input,
                             request |-> Unwrap(codec.output.value)],
                  output |->
                    IF deployment = "monolith"
                    THEN legacy_request_access_token(
                            Unwrap(codec.output.value).extra_params,
                            csrf_token)
                    ELSE request_access_token(
                            Unwrap(codec.output.value), csrf_token)]
    /\ UNCHANGED <<store, revoked, issued, config, req, started>>

----------------------------------------------------------------------------
(* GET /authorize *)

\* RedirectTarget with its reserved characters percent-encoded.
EncodedRedirectTarget == "https%3A%2F%2Fapp.example%2Fdone"
\* The redirect URI of the OAuth flow: the service's own callback URL.
ProviderRedirectUri == "http://localhost:8080/callback"
\* An absolute URL of an origin the OAuth client is not configured for.
ForeignTarget == "https://evil.example/steal"
RelativeTarget == "/done"
\* Percent-encoded bytes that are not UTF-8.
InvalidUtf8Target == "%FF"
\* The page the browser comes from.
RefererPage == "https://app.example/login"

\* What a client can send as `redirect_uri`.
RedirectInputs ==
    {RedirectTarget, EncodedRedirectTarget, ProviderRedirectUri,
     ForeignTarget, RelativeTarget, InvalidUtf8Target}

AbsoluteUrls ==
    {RedirectTarget, ProviderRedirectUri, ForeignTarget, RefererPage}

\* GoogleOAuthClientConfig::allowed_origins: the javascript_origins of the
\* OAuth client.
allowed_origins == {"https://app.example"}

\* Url::origin of an absolute URL.
origin(url) ==
    CASE url \in {RedirectTarget, RefererPage} -> "https://app.example"
      [] url = ProviderRedirectUri -> "http://localhost:8080"
      [] OTHER -> "https://evil.example"

\* get_referer_url: the Referer header when the request has one.
get_referer_url(referer) == referer

\* urlencoding::decode: percent-encoded bytes are replaced; bytes that are
\* not UTF-8 are an error.
urlencoding_decode(text) ==
    IF text = InvalidUtf8Target THEN Failed("InvalidRedirectUrl", <<>>)
    ELSE IF text = EncodedRedirectTarget THEN Parsed(RedirectTarget)
    ELSE Parsed(text)

\* Url::parse: only an absolute URL parses.
Url_parse(text) ==
    IF text \in AbsoluteUrls THEN Parsed(text)
    ELSE Failed("UrlParse", <<>>)

\* Session::new
Session_new(verifier, csrf_token, redirect_to, extra_params) ==
    [pkce_verifier |-> verifier, csrf_token |-> csrf_token,
     redirect_to |-> redirect_to, extra_params |-> extra_params]

\* The response of /authorize for an Err: no redirect, no cookie.
authorize_error(err) ==
    [status |-> status_code(err), location |-> None, cookie |-> None,
     error |-> err]

\* HttpResponse::Found with the provider URL and the session cookie.
authorize_found(response, session) ==
    [status |-> 302, location |-> Some(response.url),
     cookie |-> Some(Session_into_cookie(session)), error |-> ""]

\* Variant: without redirect_uri and Referer the flow returns to
\* RedirectTarget.
authorize_with_default_target(request, redirect_uri, referer, response) ==
    LET redirect_to == IF IsSome(redirect_uri) THEN redirect_uri
                       ELSE IF IsSome(get_referer_url(referer))
                       THEN get_referer_url(referer)
                       ELSE Some(RedirectTarget)
        decoded == urlencoding_decode(Unwrap(redirect_to))
        url == Url_parse(Unwrap(decoded.value))
    IN IF ~decoded.ok THEN authorize_error(decoded.err)
       ELSE IF ~url.ok THEN authorize_error(url.err)
       ELSE authorize_found(response,
                Session_new(response.pkce_verifier, response.csrf_token,
                            Unwrap(url.value), request.extra_params))

\* authorize, after request_access_token has returned `response`:
\* redirect_to is the redirect_uri of the query, else the Referer, else the
\* request fails; it is decoded and parsed, put into the session, and the
\* session cookie goes out with the redirect to the provider.
authorize(request, redirect_uri, referer, response) ==
    LET redirect_to == IF IsSome(redirect_uri) THEN redirect_uri
                       ELSE get_referer_url(referer)
    IN IF IsNone(redirect_to) THEN authorize_error("MissingRedirectUrl")
       ELSE LET decoded == urlencoding_decode(Unwrap(redirect_to))
            IN IF ~decoded.ok THEN authorize_error(decoded.err)
               ELSE LET url == Url_parse(Unwrap(decoded.value))
                    IN IF ~url.ok THEN authorize_error(url.err)
                       ELSE authorize_found(response,
                                Session_new(response.pkce_verifier,
                                            response.csrf_token,
                                            Unwrap(url.value),
                                            request.extra_params))

\* Variant: the session is also written to the store.
authorize_respond_saving_session ==
    /\ codec.fn = "request_access_token"
    /\ \E redirect_uri \in Optional(RedirectInputs),
          referer \in Optional({RefererPage}) :
        codec' = [fn |-> "authorize",
                  input |-> [query |-> codec.input.query,
                             request |-> codec.input.request,
                             redirect_uri |-> redirect_uri,
                             referer |-> referer,
                             response |-> codec.output],
                  output |-> authorize(codec.input.request, redirect_uri,
                                       referer, codec.output)]
    /\ store' = [store EXCEPT !["sub_a"] =
                    Some([email |-> None, refresh_token |-> None,
                          scope |-> <<>>])]
    /\ UNCHANGED <<revoked, issued, config, req, started>>

\* GET /authorize answers: an error, or the redirect to the provider
\* together with the session cookie.
authorize_respond ==
    /\ codec.fn = "request_access_token"
    /\ \E redirect_uri \in Optional(RedirectInputs),
          referer \in Optional({RefererPage}) :
        codec' = [fn |-> "authorize",
                  input |-> [query |-> codec.input.query,
                             request |-> codec.input.request,
                             redirect_uri |-> redirect_uri,
                             referer |-> referer,
                             response |-> codec.output],
                  output |-> authorize(codec.input.request, redirect_uri,
                                       referer, codec.output)]
    /\ UNCHANGED <<store, revoked, issued, config, req, started>>

\* Variant: the code exchange carries no extra parameter.
exchange_code_extra_params_none(request) == <<>>

\* FireAuthClient::exchange_authorization_code: the parameters added to the
\* code exchange request with add_extra_param.
exchange_code_extra_params(request) == to_extra_params(request.params)

\* GET /callback with the cookie that /authorize has set: the session is
\* read from the cookie, its extra_params go into the config, and the code
\* exchange request is built from the config.
callback_exchange_code_request ==
    /\ codec.fn = "authorize"
    /\ IsSome(codec.output.cookie)
    /\ LET session == Session_from_cookie(Unwrap(codec.output.cookie))
       IN codec' =
            [fn |-> "exchange_code",
             input |-> [url |-> Unwrap(codec.output.location),
                        cookie |-> Unwrap(codec.output.cookie)],
             output |->
                IF ~session.ok THEN session
                ELSE Parsed(exchange_code_extra_params(
                        [params |-> Unwrap(session.value).extra_params]))]
    /\ UNCHANGED <<store, revoked, issued, config, req, started>>

----------------------------------------------------------------------------
(* AuthorizationResponse as the Location of the callback's redirect *)

\* Token::expires_in of the provider's response: absent, or a duration.
ExpiresIn ==
    {None, Some([secs |-> 3599, nanos |-> 0]),
     Some([secs |-> 59, nanos |-> 500000000])}

\* Error messages, as words and spaces.
ErrorMessages ==
    {<<"CSRF", Space, "token", Space, "mismatch">>, <<"access_denied">>}

\* The values of AuthorizationResponse that a callback renders.
AuthorizationResponses ==
    {[kind |-> "Error", url |-> url, error |-> error, token |-> None] :
        url \in {RedirectTarget, RefererPage}, error \in ErrorMessages}
    \cup
    {[kind |-> "Success", url |-> url, error |-> <<>>,
      token |-> Some([access_token |-> "access_1", id_token |-> "id_1",
                      expires_in |-> expires_in])] :
        url \in {RedirectTarget, RefererPage}, expires_in \in ExpiresIn}

\* urlencoding::encode: a space becomes %20.
urlencoding_encode(text) ==
    [i \in 1..Len(text) |-> IF text[i] = Space THEN "%20" ELSE text[i]]

\* Duration::as_secs: the whole seconds of a duration.
as_secs(duration) == duration.secs

\* Variant: the parameters follow the URL as its query.
AuthorizationResponse_fmt_as_query(response, now) ==
    IF response.kind = "Error"
    THEN [url |-> response.url, separator |-> "?",
          params |-> <<Pair("error", urlencoding_encode(response.error))>>]
    ELSE LET token == Unwrap(response.token)
             expires_in == IF IsNone(token.expires_in) THEN 0
                           ELSE as_secs(Unwrap(token.expires_in))
         IN [url |-> response.url, separator |-> "?",
             params |-> <<Pair("access_token", token.access_token),
                          Pair("id_token", token.id_token),
                          Pair("expires_in", expires_in),
                          Pair("issued_at", now)>>]

\* Display for AuthorizationResponse: the URL, a `#`, and the parameters
\* joined by `&`.
AuthorizationResponse_fmt(response, now) ==
    IF response.kind = "Error"
    THEN [url |-> response.url, separator |-> "#",
          params |-> <<Pair("error", urlencoding_encode(response.error))>>]
    ELSE LET token == Unwrap(response.token)
             expires_in == IF IsNone(token.expires_in) THEN 0
                           ELSE as_secs(Unwrap(token.expires_in))
         IN [url |-> response.url, separator |-> "#",
             params |-> <<Pair("access_token", token.access_token),
                          Pair("id_token", token.id_token),
                          Pair("expires_in", expires_in),
                          Pair("issued_at", now)>>]

\* GET /callback renders its result as the Location header.
callback_to_string ==
    /\ codec = IdleCodec
    /\ \E response \in AuthorizationResponses, now \in {1000, 1001} :
        codec' = [fn |-> "to_string",
                  input |-> [response |-> response, now |-> now],
                  output |-> AuthorizationResponse_fmt(response, now)]
    /\ UNCHANGED <<store, revoked, issued, config, req, started>>

----------------------------------------------------------------------------
(* ExchangeAuthorizationCodeConfigBuilder *)

\* The required fields, in the order in which build looks at them.
RequiredFields ==
    <<"code", "pkce_verifier", "params", "redirect_to", "csrf_token",
      "state">>

\* ExchangeAuthorizationCodeConfigBuilder::new and the setters in `set`
\* called on it; revoke_existing_tokens(yes) is called when `revoke` is Some.
builder_with(set, revoke) ==
    [code |-> IF "code" \in set THEN Some("code_1") ELSE None,
     pkce_verifier |->
        IF "pkce_verifier" \in set THEN Some("verifier_1") ELSE None,
     params |->
        IF "params" \in set
        THEN Some([include_granted_scopes |-> TRUE, login_hint |-> None,
                   access_type |-> "offline", prompt |-> <<"consent">>])
        ELSE None,
     redirect_to |->
        IF "redirect_to" \in set THEN Some(RedirectTarget) ELSE None,
     csrf_token |-> IF "csrf_token" \in set THEN Some("csrf_1") ELSE None,
     state |-> IF "state" \in set THEN Some("csrf_1") ELSE None,
     revoke_existing_tokens |->
        IF IsSome(revoke) THEN Unwrap(revoke) ELSE FALSE]

\* Variant: an absent field is reported without its name.
build_without_field_name(builder) ==
    IF \E i \in 1..Len(RequiredFields) : IsNone(builder[RequiredFields[i]])
    THEN Failed("MissingConfigField", <<>>)
    ELSE Parsed([code |-> Unwrap(builder.code),
                 pkce_verifier |-> Unwrap(builder.pkce_verifier),
                 params |-> Unwrap(builder.params),
                 revoke_existing_tokens |-> builder.revoke_existing_tokens,
                 redirect_to |-> Unwrap(builder.redirect_to),
                 csrf_token |-> Unwrap(builder.csrf_token),
                 state |-> Unwrap(builder.state)])

\* ExchangeAuthorizationCodeConfigBuilder::build: the first required field
\* that was not set ends the construction with MissingConfigField(name).
build(builder) ==
    IF \E i \in 1..Len(RequiredFields) : IsNone(builder[RequiredFields[i]])
    THEN LET i == CHOOSE k \in 1..Len(RequiredFields) :
                    /\ IsNone(builder[RequiredFields[k]])
                    /\ \A j \in 1..(k - 1) :
                            IsSome(builder[RequiredFields[j]])
         IN Failed("MissingConfigField", <<RequiredFields[i]>>)
    ELSE Parsed([code |-> Unwrap(builder.code),
                 pkce_verifier |-> Unwrap(builder.pkce_verifier),
                 params |-> Unwrap(builder.params),
                 revoke_existing_tokens |-> builder.revoke_existing_tokens,
                 redirect_to |-> Unwrap(builder.redirect_to),
                 csrf_token |-> Unwrap(builder.csrf_token),
                 state |-> Unwrap(builder.state)])

\* An ExchangeAuthorizationCodeConfig is built from a builder on which any
\* of the setters have been called.
callback_build_config ==
    /\ codec = IdleCodec
    /\ \E set \in SUBSET {RequiredFields[i] : i \in 1..Len(RequiredFields)},
          revoke \in Optional(BOOLEAN) :
        codec' = [fn |-> "build",
                  input |-> [set |-> set, revoke |-> revoke],
                  output |-> build(builder_with(set, revoke))]
    /\ UNCHANGED <<store, revoked, issued, config, req, started>>

\* The parameter model and the session codec at work on their own: no
\* request is in flight, and the conversions are applied to every input of
\* the bounded domains.
ParamInit ==
    /\ store = [id \in Subjects |-> None]
    /\ revoked = {}
    /\ issued = 0
    /\ enable_existing_token_revocation = FALSE
    /\ deployment \in Deployments
    /\ req = [r \in Reqs |-> IdleReq]
    /\ started = 0
    /\ codec = IdleCodec

ParamNext ==
    \/ authorize_deserialize_query
    \/ authorize_request_access_token
    \/ authorize_respond
    \/ callback_exchange_code_request
    \/ authorize_into_cookie
    \/ callback_from_request
    \/ callback_to_string
    \/ callback_build_config

ParamSpec == ParamInit /\ [][ParamNext]_vars

----------------------------------------------------------------------------
(* Properties *)

Calls(r) == req[r].calls
CallNames(rec) == {rec.calls[i].call : i \in 1..Len(rec.calls)}
Done(r) == req[r].pc = "done"
Result(r) == Unwrap(req[r].result)
\* The step is one of the request in slot r.
StepOf(r) == req'[r] # req[r]
\* The callback in slot r has decoded its session.
SessionLoaded(rec) == rec.op = "callback" /\ rec.csrf_token # ""

\* C1: a callback whose `state` differs from the session's csrf_token has
\* made no external call at all (no code exchange, no verification, no store
\* access, no revocation) and has ended in the error redirect to the
\* session's redirect_to with the message "CSRF token mismatch".
C1_CsrfMismatchHalts ==
    \A r \in Reqs :
        (SessionLoaded(req[r]) /\ req[r].csrf_token # req[r].state) =>
            /\ Done(r)
            /\ Calls(r) = <<>>
            /\ Result(r).status = 302
            /\ Result(r).kind = "Error"
            /\ Result(r).url = Some(req[r].redirect_to)
            /\ Result(r).error = "CSRF token mismatch"

C1_Witness ==
    \E r \in Reqs :
        /\ SessionLoaded(req[r])
        /\ req[r].csrf_token # req[r].state
        /\ req[r].redirect_to = RedirectTarget
        /\ Done(r)

\* C2: every step of a callback whose exchange response holds no refresh
\* token leaves the store (and the provider's revocations) unchanged, and
\* such a callback issues no store write and no revocation call, whatever
\* revoke_existing_tokens is.
C2_NoRefreshTokenNoWrite ==
    [][\A r \in Reqs :
        (/\ StepOf(r)
         /\ req'[r].op = "callback"
         /\ IsSome(req'[r].response)
         /\ IsNone(Unwrap(req'[r].response).refresh_token)) =>
            /\ store' = store
            /\ revoked' = revoked
            /\ CallNames(req'[r]) \cap
                 {"repository_update", "revoke_token"} = {}]_vars

C2_Witness ==
    \E r \in Reqs :
        /\ req[r].op = "callback"
        /\ Done(r)
        /\ req[r].revoke_existing_tokens
        /\ IsSome(req[r].response)
        /\ IsNone(Unwrap(req[r].response).refresh_token)
        /\ IsSome(req[r].payload)
        /\ Result(r).kind = "Success"
        /\ IsSome(store[Unwrap(req[r].payload).sub])
        /\ IsSome(Unwrap(store[Unwrap(req[r].payload).sub]).refresh_token)

LastCall(rec) == rec.calls[Len(rec.calls)]
\* The step completes the request in slot r.
Completes(r) == req[r].pc # "done" /\ req'[r].pc = "done" /\ StepOf(r)
\* The record a callback is to store: the new refresh token, the identity
\* token's email and the scopes granted in the response.
ExpectedUser(rec) ==
    [email |-> Unwrap(rec.payload).email,
     refresh_token |-> Unwrap(rec.response).refresh_token,
     scope |-> IF IsSome(Unwrap(rec.response).scopes)
               THEN Unwrap(Unwrap(rec.response).scopes) ELSE <<>>]
\* The callback got a refresh token and a verified identity token.
GotRefreshToken(rec) ==
    /\ rec.op = "callback"
    /\ IsSome(rec.response)
    /\ IsSome(Unwrap(rec.response).refresh_token)
    /\ IsSome(rec.payload)

\* C3 as stated: whenever a callback whose exchange response held a refresh
\* token completes, the store's record at key sub holds the new refresh
\* token, the identity token's email and the granted scopes.
C3_Original ==
    [][\A r \in Reqs :
        (Completes(r) /\ GotRefreshToken(req'[r])) =>
            store'[Unwrap(req'[r].payload).sub]
                = Some(ExpectedUser(req'[r]))]_vars

\* C3 amended: when a callback whose exchange response held a refresh token
\* completes after a store write that succeeded, the record at key sub holds
\* the new refresh token, the identity token's email and the granted scopes;
\* a write that failed leaves the record as it was.
C3_OverwriteWhenWriteSucceeds ==
    [][\A r \in Reqs :
        (/\ Completes(r)
         /\ GotRefreshToken(req'[r])
         /\ LastCall(req'[r]).call = "repository_update") =>
            /\ LastCall(req'[r]).key = Unwrap(req'[r].payload).sub
            /\ LastCall(req'[r]).ok =>
                 store'[Unwrap(req'[r].payload).sub]
                     = Some(ExpectedUser(req'[r]))
            /\ ~LastCall(req'[r]).ok => store' = store]_vars

C3_Witness ==
    \E r \in Reqs :
        /\ Done(r)
        /\ GotRefreshToken(req[r])
        /\ LastCall(req[r]).call = "repository_update"
        /\ LastCall(req[r]).ok
        /\ IsSome(Unwrap(req[r].payload).email)
        /\ IsSome(Unwrap(req[r].response).scopes)
        /\ store[Unwrap(req[r].payload).sub] = Some(ExpectedUser(req[r]))
        /\ Unwrap(req[r].response).refresh_token # Some(0)

\* C4: a callback whose code exchange and identity verification succeeded
\* and whose store upsert failed has ended in the Success redirect that
\* delivers the obtained tokens, not in an error redirect or error response.
C4_UpsertFailureStillSuccess ==
    \A r \in Reqs :
        (/\ Done(r)
         /\ GotRefreshToken(req[r])
         /\ LastCall(req[r]).call = "repository_update"
         /\ ~LastCall(req[r]).ok) =>
            /\ Result(r).status = 302
            /\ Result(r).kind = "Success"
            /\ Result(r).token = req[r].response

\* C5: with revoke_existing_tokens set, a callback in which the lookup of the
\* existing record or the revocation of the old refresh token failed has
\* still issued the upsert of the new record and ended in the Success
\* redirect.
C5_RevocationBestEffort ==
    \A r \in Reqs :
        (/\ Done(r)
         /\ GotRefreshToken(req[r])
         /\ req[r].revoke_existing_tokens
         /\ \E i \in 1..Len(Calls(r)) :
               /\ Calls(r)[i].call \in {"repository_get", "revoke_token"}
               /\ ~Calls(r)[i].ok) =>
            /\ "repository_update" \in CallNames(req[r])
            /\ Result(r).kind = "Success"

\* C6: the step in which the code exchange or the identity verification of a
\* callback fails ends the callback in the Error redirect to the session's
\* redirect_to, leaves the store and the provider's revocations unchanged,
\* and the callback has made no store or revocation call; after a failed
\* code exchange the verifier has not been called either.
C6_ExchangeOrVerifyFailure ==
    [][\A r \in Reqs :
        (/\ StepOf(r)
         /\ req'[r].op = "callback"
         /\ req'[r].calls # <<>>
         /\ LastCall(req'[r]).call \in {"exchange_code", "validate_id_token"}
         /\ ~LastCall(req'[r]).ok) =>
            /\ req'[r].pc = "done"
            /\ Unwrap(req'[r].result).status = 302
            /\ Unwrap(req'[r].result).kind = "Error"
            /\ Unwrap(req'[r].result).url = Some(req'[r].redirect_to)
            /\ store' = store
            /\ revoked' = revoked
            /\ CallNames(req'[r]) \subseteq {"exchange_code", "validate_id_token"}
            /\ (LastCall(req'[r]).call = "exchange_code"
                   => CallNames(req'[r]) = {"exchange_code"})]_vars

C6_Witness ==
    \E r \in Reqs :
        /\ req[r].op = "callback"
        /\ Done(r)
        /\ Len(Calls(r)) = 2
        /\ LastCall(req[r]).call = "validate_id_token"
        /\ ~LastCall(req[r]).ok
        /\ IsSome(Unwrap(req[r].response).refresh_token)
        /\ Result(r).kind = "Error"

\* The callback in slot r has answered with a 302 whose target is the
\* session's redirect_to followed by a success or an error fragment.
RedirectedBack(r) ==
    /\ req[r].op = "callback"
    /\ Done(r)
    /\ Result(r).status = 302
    /\ Result(r).url = Some(req[r].redirect_to)
    /\ Result(r).kind \in {"Success", "Error"}

\* C7: once its session has been decoded, a callback that is waiting for an
\* external call eventually terminates, and every callback that has
\* terminated after decoding its session has answered with a 302 redirect to
\* the session's redirect_to with a success or an error fragment, never with
\* an HTTP error response, whatever the outcomes of the external calls.
C7_CallbackEndsInRedirect ==
    /\ \A r \in Reqs :
         (SessionLoaded(req[r]) /\ ~Done(r)) ~> RedirectedBack(r)
    /\ [](\A r \in Reqs : (SessionLoaded(req[r]) /\ Done(r))
                              => RedirectedBack(r))

C7_Witness ==
    \E r \in Reqs :
        /\ RedirectedBack(r)
        /\ Len(Calls(r)) = 5
        /\ \E i \in 1..5 : ~Calls(r)[i].ok
        /\ Result(r).kind = "Success"

\* The calls of the request that have the given name.
CallsNamed(rec, name) ==
    {i \in 1..Len(rec.calls) : rec.calls[i].call = name}

\* C8: when the store lookup of ExchangeRefreshToken(user_id) returns, the
\* call fails with UserNotFound if the store holds no record for user_id and
\* with the token-exchange error naming the missing refresh token if the
\* record holds none, in both cases without any provider refresh call;
\* otherwise the next call is the provider refresh with exactly the stored
\* refresh token.
C8_ExchangeRefreshToken ==
    [][\A r \in Reqs :
        (StepOf(r) /\ req[r].op = "token") =>
            /\ (req[r].pc = "get" /\ LastCall(req'[r]).ok) =>
                 LET user == store[req[r].user_id] IN
                 /\ IsNone(user) =>
                      /\ req'[r].pc = "done"
                      /\ Unwrap(req'[r].result).kind = "UserNotFound"
                      /\ CallNames(req'[r]) = {"repository_get"}
                 /\ (IsSome(user) /\ IsNone(Unwrap(user).refresh_token)) =>
                      /\ req'[r].pc = "done"
                      /\ Unwrap(req'[r].result).kind = "TokenExchangeFailed"
                      /\ Unwrap(req'[r].result).error
                            = "No refresh token found for user"
                      /\ CallNames(req'[r]) = {"repository_get"}
                 /\ (IsSome(user) /\ IsSome(Unwrap(user).refresh_token)) =>
                      /\ req'[r].pc = "refresh"
                      /\ req'[r].existing = Unwrap(user).refresh_token
            /\ req[r].pc = "refresh" =>
                 /\ Len(req'[r].calls) = 2
                 /\ LastCall(req'[r]).call = "exchange_refresh_token"
                 /\ LastCall(req'[r]).token = req[r].existing]_vars

C8_Witness ==
    \E r \in Reqs :
        /\ req[r].op = "token"
        /\ Done(r)
        /\ Len(Calls(r)) = 2
        /\ LastCall(req[r]).call = "exchange_refresh_token"
        /\ LastCall(req[r]).token = Some(1)
        /\ store[req[r].user_id] # None
        /\ Unwrap(store[req[r].user_id]).refresh_token = Some(1)

\* RevokeToken has been invoked for the request: the caller was
\* authenticated and, in fireauth2-server, resolved to a Google user id.
RevokeTokenCalled(rec) ==
    /\ rec.op = "revoke"
    /\ \/ rec.user_id # ""
       \/ /\ deployment = "monolith"
          /\ (IsNone(rec.result) \/ Unwrap(rec.result).kind # "FirebaseAuth")

\* C9: the first external call of RevokeToken is the provider revocation of
\* the access token, and when that revocation has failed the call has ended
\* with an error after this single call: no store lookup, no refresh-token
\* revocation.
C9_AccessTokenRevokedFirst ==
    \A r \in Reqs :
        (RevokeTokenCalled(req[r]) /\ req[r].pc # "revoke_access") =>
            /\ Calls(r) # <<>>
            /\ Calls(r)[1] = Call("revoke_token", "access_token", None,
                                  Calls(r)[1].ok)
            /\ ~Calls(r)[1].ok =>
                 /\ Done(r)
                 /\ Len(Calls(r)) = 1
                 /\ Result(r).kind = "TokenRevocationFailed"
                 /\ Result(r).status # 200

C9_Witness ==
    \E r \in Reqs :
        /\ RevokeTokenCalled(req[r])
        /\ req[r].user_id # ""
        /\ req[r].revoke_refresh_token
        /\ Done(r)
        /\ Len(Calls(r)) = 1
        /\ ~Calls(r)[1].ok
        /\ IsSome(store[req[r].user_id])
        /\ IsSome(Unwrap(store[req[r].user_id]).refresh_token)

\* C10: when the store lookup of a RevokeToken with revoke_refresh_token set
\* returns and the user has no stored refresh token (no record, or a record
\* without one), the call ends successfully having made exactly one provider
\* revoke call; a RevokeToken without revoke_refresh_token ends with the
\* access-token revocation as its only call and never reads the store.
C10_NoSecondRevoke ==
    [][\A r \in Reqs :
        (StepOf(r) /\ RevokeTokenCalled(req[r])) =>
            /\ (/\ req[r].pc = "get"
                /\ LastCall(req'[r]).ok
                /\ stored_refresh_token(store[req[r].user_id]) = None) =>
                 /\ req'[r].pc = "done"
                 /\ Unwrap(req'[r].result).status = 200
                 /\ Cardinality(CallsNamed(req'[r], "revoke_token")) = 1
            /\ (req[r].pc = "revoke_access" /\ ~req[r].revoke_refresh_token) =>
                 /\ req'[r].pc = "done"
                 /\ Len(req'[r].calls) = 1
                 /\ LastCall(req'[r]).call = "revoke_token"
                 /\ (LastCall(req'[r]).ok
                        <=> Unwrap(req'[r].result).status = 200)]_vars

C10_Witness ==
    \E r \in Reqs :
        /\ RevokeTokenCalled(req[r])
        /\ req[r].revoke_refresh_token
        /\ Done(r)
        /\ Len(Calls(r)) = 2
        /\ LastCall(req[r]).call = "repository_get"
        /\ Result(r).status = 200
        /\ IsSome(store[req[r].user_id])
        /\ IsNone(Unwrap(store[req[r].user_id]).refresh_token)

\* C11: a RevokeToken with revoke_refresh_token set whose last external call
\* (the store lookup or the refresh-token revocation) failed has ended with
\* an error response, never with success; and one that found a stored
\* refresh token has ended with success only after three successful calls:
\* the access-token revocation, the lookup, and the revocation of exactly
\* the stored refresh token.
C11_RefreshRevocationSurfaced ==
    \A r \in Reqs :
        (RevokeTokenCalled(req[r]) /\ req[r].revoke_refresh_token /\ Done(r)
            /\ Len(Calls(r)) >= 1) =>
            /\ (~LastCall(req[r]).ok) =>
                 /\ Result(r).status # 200
                 /\ Result(r).kind \in {"TokenRevocationFailed", "Firestore"}
            /\ (Result(r).status = 200 /\ IsSome(req[r].existing)) =>
                 /\ Len(Calls(r)) = 3
                 /\ \A i \in 1..3 : Calls(r)[i].ok
                 /\ Calls(r)[2].call = "repository_get"
                 /\ Calls(r)[3].call = "revoke_token"
                 /\ Calls(r)[3].token = req[r].existing
                 /\ Unwrap(req[r].existing) \in revoked

C11_Witness ==
    \E r \in Reqs :
        /\ RevokeTokenCalled(req[r])
        /\ req[r].revoke_refresh_token
        /\ Done(r)
        /\ Len(Calls(r)) = 3
        /\ ~LastCall(req[r]).ok
        /\ Result(r).kind = "TokenRevocationFailed"

\* C12: the session that the callback reads out of the cookie written by
\* /authorize is the session that was written, for every access_type, every
\* prompt list (empty, one prompt, two or more), both include_granted_scopes
\* values and login_hint present or absent: Decode(Encode(s)) = s.
C12_SessionRoundTrip ==
    [][(codec.fn = "into_cookie" /\ codec'.fn = "from_request") =>
            /\ codec'.output.ok
            /\ Unwrap(codec'.output.value) = codec.input]_vars

\* C13: a callback that could not decode its session (missing cookie or
\* malformed payload) has ended in a direct error response, not a redirect,
\* of the one kind "failed to extract auth info" whatever the cause, and
\* has made no external call.
C13_DecodeFailureSingleKind ==
    \A r \in Reqs :
        (req[r].op = "callback" /\ Done(r) /\ ~SessionLoaded(req[r])) =>
            /\ Result(r).url = None
            /\ Result(r).status # 302
            /\ Calls(r) = <<>>
            /\ Result(r).kind = "FailedToExtractAuthCookie"

\* A request of the token-management routes /token, /revoke, /introspect.
TokenManagement(rec) == rec.op \in {"token", "revoke", "introspect"}

QueryPairs(url, name) ==
    {i \in 1..Len(url.query) : url.query[i].name = name}

\* The client sent none of the extra parameters.
NoExtraParams(query) ==
    /\ IsNone(query.include_granted_scopes)
    /\ IsNone(query.login_hint)
    /\ IsNone(query.access_type)
    /\ IsNone(query.prompt)

\* C16: the extra parameters serialized into the authorization URL always
\* hold exactly one access_type pair and exactly one prompt pair, with the
\* values of the parameter set (also when these are the defaults and when the
\* client sent no values), and a login_hint pair if and only if a hint is
\* present.
C16_AccessTypeAndPromptAlwaysEmitted ==
    (codec.fn = "request_access_token") =>
        LET params == codec.input.request.extra_params
            url == codec.output.url
        IN /\ to_extra_params(params)
                = SubSeq(url.query, Len(url.query)
                            - Len(to_extra_params(params)) + 1,
                         Len(url.query))
           /\ \E i \in 1..Len(url.query) :
                /\ QueryPairs(url, "access_type") = {i}
                /\ url.query[i].value = <<params.access_type>>
           /\ \E i \in 1..Len(url.query) :
                /\ QueryPairs(url, "prompt") = {i}
                /\ url.query[i].value = join(params.prompt, Space)
           /\ IsSome(params.login_hint)
                <=> QueryPairs(url, "login_hint") # {}
           /\ IsSome(params.login_hint) =>
                \E i \in 1..Len(url.query) :
                    /\ QueryPairs(url, "login_hint") = {i}
                    /\ url.query[i].value = Unwrap(params.login_hint)

C16_Witness ==
    /\ codec.fn = "request_access_token"
    /\ NoExtraParams(codec.input.query)
    /\ QueryPairs(codec.output.url, "access_type") # {}
    /\ QueryPairs(codec.output.url, "login_hint") = {}

\* C17: when the client supplies none of the extra parameters, the parsed
\* parameter set has access_type = online, prompt = [consent] and
\* include_granted_scopes = true.
C17_DefaultsWhenNothingSupplied ==
    (codec.fn = "deserialize_query" /\ NoExtraParams(codec.input)
        /\ codec.output.ok) =>
        LET params == Unwrap(codec.output.value).extra_params
        IN /\ params.access_type = "online"
           /\ params.include_granted_scopes = TRUE
           /\ params.prompt = <<"consent">>

\* The words that a prompt input names, in order.
NamedWords(json) ==
    IF json.kind = "array" THEN json.items
    ELSE SelectSeq(json.text, LAMBDA token : token \notin {Space, Comma})

\* The query has a scope list that parses and sends a prompt.
SendsPrompt(query) ==
    /\ IsSome(query.scope)
    /\ ScopeList_deserialize(Unwrap(query.scope)).ok
    /\ IsSome(query.prompt)

\* C18: a prompt sent as an array, as a comma-separated string or as a
\* space-separated string parses to the ordered list of the prompts it
\* names; when a word is none of none, consent, select_account parsing fails
\* with the "invalid prompt value" error that carries the first such word.
C18_PromptParsing ==
    (codec.fn = "deserialize_query" /\ SendsPrompt(codec.input)) =>
        LET words == NamedWords(Unwrap(codec.input.prompt))
            unknown == {i \in 1..Len(words) : words[i] \notin PromptNames}
        IN IF unknown = {}
           THEN /\ codec.output.ok
                /\ Unwrap(codec.output.value).extra_params.prompt = words
           ELSE /\ ~codec.output.ok
                /\ codec.output.err = "Invalid prompt value"
                /\ \E i \in unknown :
                    /\ \A j \in unknown : i <= j
                    /\ codec.output.token = <<words[i]>>

\* The scopes that a scope input names, in order.
NamedScopes(json) ==
    LET words == IF json.kind = "array" THEN json.items
                 ELSE SelectSeq(json.text, LAMBDA token : token # Space)
    IN [i \in 1..Len(words) |-> <<words[i]>>]

\* C19: a scope input that names no scope (an empty or blank string, an
\* empty array) fails with the "at least one scope" error, and no parsed
\* payload ever has an empty scope list; a string of scopes separated by
\* white space and the array of the same scopes both parse to the ordered
\* list of those scopes.
C19_ScopeParsing ==
    (codec.fn = "deserialize_query" /\ IsSome(codec.input.scope)) =>
        LET scope == Unwrap(codec.input.scope)
            named == NamedScopes(scope)
        IN /\ (named = <<>>) =>
                /\ ~codec.output.ok
                /\ codec.output.err
                     = IF scope.kind = "array"
                       THEN "scopes array must contain at least one scope"
                       ELSE "scopes string must contain at least one scope"
           /\ codec.output.ok =>
                /\ Unwrap(codec.output.value).scopes = named
                /\ Len(Unwrap(codec.output.value).scopes) > 0
           /\ (named # <<>> /\ IsNone(codec.input.prompt)) =>
                codec.output.ok

C19_Witness ==
    /\ codec.fn = "deserialize_query"
    /\ codec.input.scope = Some(JString(<<Space>>))
    /\ ~codec.output.ok

\* C20: build succeeds exactly when code, pkce_verifier, params,
\* redirect_to, csrf_token and state have all been set, and the config then
\* holds the values that were set; otherwise it fails with the missing-field
\* error naming a field that was not set (the one field, when a single field
\* is absent, so that the error differs per field); revoke_existing_tokens
\* is false when it was not set.
C20_BuildRequiresAllFields ==
    (codec.fn = "build") =>
        LET all == {RequiredFields[i] : i \in 1..Len(RequiredFields)}
            set == codec.input.set
            out == codec.output
        IN /\ out.ok <=> (set = all)
           /\ (~out.ok) =>
                /\ out.err = "MissingConfigField"
                /\ Len(out.token) = 1
                /\ out.token[1] \in all \ set
           /\ out.ok =>
                /\ Unwrap(out.value).revoke_existing_tokens
                     = (IF IsSome(codec.input.revoke)
                        THEN Unwrap(codec.input.revoke) ELSE FALSE)
                /\ Unwrap(out.value).state = "csrf_1"
                /\ Unwrap(out.value).code = "code_1"
                /\ Unwrap(out.value).redirect_to = RedirectTarget

C20_Witness ==
    /\ codec.fn = "build"
    /\ codec.input.set
         = {"code", "pkce_verifier", "params", "redirect_to", "csrf_token"}
    /\ codec.input.revoke = None
    /\ codec.output.token = <<"state">>

\* The scopes named in the scope parameter of an authorization URL.
RequestedScopes(url) ==
    {SelectSeq(url.query[i].value, LAMBDA token : token # Space) :
        i \in QueryPairs(url, "scope")}

ResolvedTarget(input) ==
    IF IsSome(input.redirect_uri) THEN input.redirect_uri ELSE input.referer

\* The redirect_to of the session in a cookie.
CookieRedirectTo(cookie) == Unwrap(cookie.value.redirect_to).text[1]

\* C22: /authorize takes redirect_to from the redirect_uri parameter when
\* the query has one, else from the Referer header, and fails with the
\* missing-redirect error when there is neither; the redirect_to of a session
\* is always that resolved target (percent-decoded), never a default, and a
\* request that fails sets no cookie and sends no redirect to the provider.
C22_RedirectTargetResolution ==
    (codec.fn = "authorize") =>
        LET target == ResolvedTarget(codec.input)
            out == codec.output
        IN /\ IsNone(target) =>
                /\ out.error = "MissingRedirectUrl"
                /\ out.status = 400
           /\ IsSome(out.cookie) =>
                /\ IsSome(target)
                /\ urlencoding_decode(Unwrap(target)).ok
                /\ CookieRedirectTo(Unwrap(out.cookie))
                     = Unwrap(urlencoding_decode(Unwrap(target)).value)
           /\ (out.status # 302 \/ out.error # "") =>
                /\ IsNone(out.cookie)
                /\ IsNone(out.location)
           /\ out.status = 302 =>
                /\ IsSome(out.cookie)
                /\ out.location = Some(codec.input.response.url)

C22_Witness ==
    /\ codec.fn = "authorize"
    /\ IsNone(codec.input.redirect_uri)
    /\ codec.input.referer = Some(RefererPage)
    /\ IsSome(codec.output.cookie)
    /\ CookieRedirectTo(Unwrap(codec.output.cookie)) = RefererPage

\* C23: the redirect_to of every session that /authorize creates is an
\* absolute URL and is not the redirect URI of the OAuth flow (the service's
\* own callback URL): a request that names that URI gets no session.
C23_RedirectToNeverProviderRedirectUri ==
    (codec.fn = "authorize" /\ IsSome(codec.output.cookie)) =>
        /\ CookieRedirectTo(Unwrap(codec.output.cookie)) \in AbsoluteUrls
        /\ CookieRedirectTo(Unwrap(codec.output.cookie))
                # ProviderRedirectUri

\* C24: /authorize accepts a redirect_uri only when it is an absolute URL
\* that matches a URI configured for the OAuth client (one of its origins,
\* or its redirect URI); any other redirect_uri is rejected, so that no
\* session, and with it no callback redirect that carries tokens, has it as
\* its target.
C24_RedirectUriMatchesClientConfig ==
    (codec.fn = "authorize" /\ IsSome(codec.input.redirect_uri)
        /\ IsSome(codec.output.cookie)) =>
        LET redirect_to == CookieRedirectTo(Unwrap(codec.output.cookie))
        IN /\ redirect_to \in AbsoluteUrls
           /\ \/ origin(redirect_to) \in allowed_origins
              \/ redirect_to = ProviderRedirectUri

\* The names of the parameters of a rendered redirect, in order.
ParamNames(rendered) ==
    [i \in 1..Len(rendered.params) |-> rendered.params[i].name]

AuthorizeStep ==
    /\ codec' # codec
    /\ codec'.fn \in {"deserialize_query", "request_access_token",
                      "authorize"}

\* C26: no step of an authorize request changes the store or the tokens at
\* the provider (none issued, none revoked), and none adds an external call
\* (code exchange, refresh, revocation, identity verification, store get or
\* update) to the log of calls.
C26_AuthorizePerformsNoIO ==
    [][AuthorizeStep =>
        /\ store' = store
        /\ revoked' = revoked
        /\ issued' = issued
        /\ \A r \in Reqs : Calls(r)' = Calls(r)]_vars

C26_Witness ==
    /\ codec.fn = "authorize"
    /\ codec.output.status = 302
    /\ IsSome(codec.output.cookie)
    /\ \A id \in Subjects : store[id] = None
    /\ \A r \in Reqs : Calls(r) = <<>>

\* The extra parameters in the query of an authorization URL.
ExtraParamPairs(url) ==
    SelectSeq(url.query,
              LAMBDA pair : pair.name \in {"access_type", "prompt",
                                           "include_granted_scopes",
                                           "login_hint"})

\* C27: the extra parameters of the code exchange request of a callback are
\* exactly the extra parameters in the authorization URL of the authorize
\* request that set the callback's session cookie: the same access_type,
\* prompt, include_granted_scopes and login_hint pairs.
C27_ExchangeReplaysExtraParams ==
    (codec.fn = "exchange_code" /\ codec.output.ok) =>
        Unwrap(codec.output.value) = ExtraParamPairs(codec.input.url)

C27_Witness ==
    /\ codec.fn = "exchange_code"
    /\ codec.output.ok
    /\ Pair("access_type", <<"offline">>)
            \in {Unwrap(codec.output.value)[i] :
                    i \in 1..Len(Unwrap(codec.output.value))}
    /\ Pair("prompt", <<"consent">>)
            \in {Unwrap(codec.output.value)[i] :
                    i \in 1..Len(Unwrap(codec.output.value))}
    /\ Len(Unwrap(codec.output.value)) = 4

\* The callback in slot r has passed CSRF validation and has had its code
\* exchange.
ExchangedCode(rec) ==
    /\ rec.op = "callback"
    /\ rec.pc = "done"
    /\ "exchange_code" \in CallNames(rec)

\* C28: once a callback has passed CSRF validation with a session and has
\* had its code exchange, a callback that starts later with the same cookie
\* and the same state does not go on to the code exchange.
C28_SessionSingleUse ==
    [][\A r, later \in Reqs :
        (/\ r # later
         /\ ExchangedCode(req[r])
         /\ StepOf(later)
         /\ req[later].pc \in {"idle", "done"}
         /\ SessionLoaded(req'[later])
         /\ req'[later].csrf_token = req[r].csrf_token
         /\ req'[later].redirect_to = req[r].redirect_to
         /\ req'[later].state = req[r].state) =>
            req'[later].pc # "exchange_code"]_vars

\* The names of the external calls of a request, in the order in which they
\* returned.
CallSeq(rec) == [i \in 1..Len(rec.calls) |-> rec.calls[i].call]

IsPrefix(s, t) == Len(s) <= Len(t) /\ s = SubSeq(t, 1, Len(s))

\* The orders in which a callback may issue all of its external calls.
CallbackCallOrders ==
    {<<"exchange_code", "validate_id_token", "repository_get",
       "revoke_token", "repository_update">>,
     <<"exchange_code", "validate_id_token", "repository_get",
       "repository_update">>,
     <<"exchange_code", "validate_id_token", "repository_update">>}

\* C29: the external calls of a callback are issued one after the other, in
\* the order code exchange, identity verification, store get, revocation of
\* the old token, store upsert: the call in flight is always preceded by the
\* returned calls before it in that order; the store is used only when the
\* exchange returned a refresh token, the get and the revocation only when
\* revoke_existing_tokens is set, and then they come before the upsert.
C29_CallbackCallOrder ==
    \A r \in Reqs :
        (req[r].op = "callback") =>
            LET rec == req[r]
                names == CallSeq(rec)
                at(name) == {i \in 1..Len(names) : names[i] = name}
            IN /\ \E order \in CallbackCallOrders : IsPrefix(names, order)
               /\ rec.pc = "exchange_code" => names = <<>>
               /\ rec.pc = "validate_id_token" => names = <<"exchange_code">>
               /\ rec.pc = "revoke_existing_get" =>
                    names = <<"exchange_code", "validate_id_token">>
               /\ rec.pc = "revoke_existing_revoke" =>
                    names = <<"exchange_code", "validate_id_token",
                              "repository_get">>
               /\ rec.pc = "update" =>
                    /\ Len(names) >= 2
                    /\ "repository_update" \notin CallNames(rec)
               /\ (CallNames(rec) \cap {"repository_get", "revoke_token",
                                        "repository_update"} # {}
                        \/ rec.pc \in {"revoke_existing_get",
                                       "revoke_existing_revoke", "update"}) =>
                    /\ IsSome(rec.response)
                    /\ IsSome(Unwrap(rec.response).refresh_token)
               /\ "repository_get" \in CallNames(rec) =>
                    rec.revoke_existing_tokens
               /\ (rec.revoke_existing_tokens
                        /\ (rec.pc = "update"
                                \/ "repository_update" \in CallNames(rec))) =>
                    "repository_get" \in CallNames(rec)
               /\ \A i \in at("revoke_token"), j \in at("repository_update") :
                    i < j

C29_Witness ==
    \E r \in Reqs :
        /\ req[r].op = "callback"
        /\ Done(r)
        /\ CallSeq(req[r]) = <<"exchange_code", "validate_id_token",
                               "repository_get", "revoke_token",
                               "repository_update">>

\* The calls of a request that were made for the same purpose as its i-th
\* call: the same primitive on the same key or kind of token.
SamePurpose(rec, i) ==
    {j \in 1..Len(rec.calls) :
        /\ rec.calls[j].call = rec.calls[i].call
        /\ rec.calls[j].key = rec.calls[i].key}

\* C30: within one request every external primitive is invoked at most once
\* for each purpose (a callback: one code exchange, one verification, one
\* store get, one revocation, one upsert; a token request: one refresh call;
\* a revoke request: at most two revocations, one for each token), so that
\* no call, and in particular no failed call, is invoked again.
C30_NoRetry ==
    \A r \in Reqs :
        LET rec == req[r]
        IN /\ \A i \in 1..Len(rec.calls) : SamePurpose(rec, i) = {i}
           /\ rec.op = "callback" =>
                \A name \in CallNames(rec) :
                    Cardinality(CallsNamed(rec, name)) = 1
           /\ rec.op = "token" =>
                Cardinality(CallsNamed(rec, "exchange_refresh_token")) <= 1
           /\ rec.op = "revoke" =>
                Cardinality(CallsNamed(rec, "revoke_token")) <= 2

C30_Witness ==
    \E r, failed \in Reqs :
        /\ req[r].op = "revoke"
        /\ Done(r)
        /\ Cardinality(CallsNamed(req[r], "revoke_token")) = 2
        /\ req[failed].op = "callback"
        /\ Done(failed)
        /\ Len(Calls(failed)) = 1
        /\ ~Calls(failed)[1].ok

\* The callback has had its upsert, and the write succeeded or not.
Upserted(rec, ok) ==
    /\ GotRefreshToken(rec)
    /\ rec.pc = "done"
    /\ LastCall(rec).call = "repository_update"
    /\ LastCall(rec).ok = ok

\* Two finished callbacks for one subject, each with a refresh token.
SameSubjectCallbacks(r, other) ==
    /\ r # other
    /\ Done(r) /\ GotRefreshToken(req[r])
    /\ Done(other) /\ GotRefreshToken(req[other])
    /\ Unwrap(req[r].payload).sub = Unwrap(req[other].payload).sub

AbortedInBestEffortStep(r) ==
    /\ req[r].op = "callback"
    /\ req[r].pc \in {"revoke_existing_revoke", "update"}
    /\ req'[r].pc = "aborted"

\* C32: when the client closes the connection while the pre-overwrite
\* revocation or the upsert of a callback is in flight, that call is not
\* cancelled: it runs to completion at the provider or the store.
C32_BestEffortCallSurvivesAbort ==
    [][\A r \in Reqs :
        AbortedInBestEffortStep(r) =>
            /\ Len(req'[r].calls) = Len(req[r].calls) + 1
            /\ LastCall(req'[r]).call
                    = IF req[r].pc = "update" THEN "repository_update"
                      ELSE "revoke_token"]_vars

\* What the caller of the upsert is handed in this deployment.
UpsertResult(write_ok) ==
    IF deployment = "monolith" THEN legacy_repository_update_result(write_ok)
    ELSE repository_update_result(write_ok)

\* The request in slot r takes the step in which its upsert returns.
UpsertReturns(r) ==
    /\ req[r].op = "callback"
    /\ req[r].pc = "update"
    /\ Len(req'[r].calls) = Len(req[r].calls) + 1
    /\ LastCall(req'[r]).call = "repository_update"

\* C33: the upsert hands its caller a store error whenever the write to the
\* store failed, and success only when the record was written.
C33_UpsertReportsStoreError ==
    [][\A r \in Reqs :
        UpsertReturns(r) =>
            (UpsertResult(LastCall(req'[r]).ok) = "Ok"
                <=> LastCall(req'[r]).ok)]_vars

\* An /introspect request of a caller with a session of the broker, in
\* slot r, whose form carried the given hint (None: the field left out).
IntrospectWith(r, hints) ==
    /\ req[r].op = "introspect"
    /\ req[r].caller.authenticated
    /\ req[r].token_type_hint \in hints

\* C34: /introspect with token_type_hint = access_token answers 422
\* "access_token introspection not allowed" and never calls the identity
\* verifier; with token_type_hint = id_token or without the field it calls
\* the verifier, once, and answers 200 when the token verifies and the
\* verification error when it does not.
C34_IntrospectByTypeHint ==
    \A r \in Reqs :
        /\ IntrospectWith(r, {Some("access_token")}) =>
            /\ Done(r)
            /\ Calls(r) = <<>>
            /\ Result(r).status = 422
            /\ Result(r).error = "access_token introspection not allowed"
        /\ IntrospectWith(r, {None, Some("id_token")}) =>
            /\ Len(Calls(r)) <= 1
            /\ CallNames(req[r]) \subseteq {"validate_id_token"}
            /\ Done(r) =>
                /\ Len(Calls(r)) = 1
                /\ Calls(r)[1].ok => Result(r).status = 200
                /\ ~Calls(r)[1].ok =>
                    /\ Result(r).kind = "TokenVerification"
                    /\ Result(r).status # 200

C34_Witness ==
    /\ \E r \in Reqs :
        /\ IntrospectWith(r, {None})
        /\ Done(r)
        /\ Result(r).status = 200
    /\ \E r \in Reqs :
        /\ IntrospectWith(r, {Some("access_token")})
        /\ Done(r)

\* The subject has no stored record, or a record without refresh token.
NoStoredRefreshToken(sub) ==
    IsNone(store[sub]) \/ IsNone(Unwrap(store[sub]).refresh_token)

\* The store lookup of the callback in slot r returns with the record.
ExistingLookupReturns(r) ==
    /\ req[r].op = "callback"
    /\ req[r].pc = "revoke_existing_get"
    /\ req'[r] # req[r]
    /\ LastCall(req'[r]).call = "repository_get"
    /\ LastCall(req'[r]).ok

\* C35: a callback without revoke_existing_tokens never reads the store and
\* never calls the provider's revoke primitive.  With the flag set, when the
\* lookup finds no record for the subject or a record without refresh token,
\* the callback goes on to the upsert without any revoke call, and the
\* upsert of the new record is the one call it still makes.
C35_RevocationOnlyWhenEnabledAndStored ==
    [][\A r \in Reqs :
        /\ (req'[r].op = "callback" /\ ~req'[r].revoke_existing_tokens) =>
            CallNames(req'[r]) \cap {"repository_get", "revoke_token"} = {}
        /\ (ExistingLookupReturns(r)
                /\ NoStoredRefreshToken(Unwrap(req[r].payload).sub)) =>
            /\ req'[r].pc = "update"
            /\ "revoke_token" \notin CallNames(req'[r])
        /\ (req[r].op = "callback" /\ req[r].pc = "update"
                /\ req'[r] # req[r]) =>
            /\ req'[r].pc = "done"
            /\ LastCall(req'[r]).call = "repository_update"
            /\ LastCall(req'[r]).key = Unwrap(req[r].payload).sub
            /\ CallsNamed(req'[r], "revoke_token")
                    = CallsNamed(req[r], "revoke_token")]_vars

C35_Witness ==
    /\ \E r \in Reqs :
        /\ req[r].op = "callback"
        /\ req[r].revoke_existing_tokens
        /\ Done(r)
        /\ CallNames(req[r]) = {"exchange_code", "validate_id_token",
                                "repository_get", "repository_update"}
        /\ \E i \in 1..Len(Calls(r)) :
            Calls(r)[i].call = "repository_get" /\ Calls(r)[i].ok
        /\ LastCall(req[r]).ok

\* The stored record of the subject holds a refresh token.
HasStoredRefreshToken(sub) ==
    IsSome(store[sub]) /\ IsSome(Unwrap(store[sub]).refresh_token)

\* C36: every record the service writes to the store holds a refresh token,
\* and a subject whose stored record holds a refresh token holds one after
\* every step: no authorize, callback, refresh or revoke step clears it.
C36_StoredRefreshTokenStaysPresent ==
    [][\A sub \in Subjects :
        /\ store'[sub] # store[sub] =>
            /\ IsSome(store'[sub])
            /\ IsSome(Unwrap(store'[sub]).refresh_token)
        /\ HasStoredRefreshToken(sub) => HasStoredRefreshToken(sub)']_vars

\* A record with a refresh token was written over one without, and a
\* /revoke request that revoked the stored refresh token has completed.
C36_Witness ==
    \E r, other \in Reqs :
        /\ req[r].op = "callback"
        /\ Done(r)
        /\ Upserted(req[r], TRUE)
        /\ req[other].op = "revoke"
        /\ Done(other)
        /\ req[other].user_id = Unwrap(req[r].payload).sub
        /\ \E i \in 1..Len(Calls(other)) :
            /\ Calls(other)[i].call = "revoke_token"
            /\ Calls(other)[i].key = "refresh_token"
            /\ Calls(other)[i].ok
            /\ Calls(other)[i].token
                    = Unwrap(store[req[other].user_id]).refresh_token
            /\ Calls(other)[i].token = ExpectedUser(req[r]).refresh_token

\* The refresh token in the stored record of the subject.
StoredRefreshToken(sub) == Unwrap(Unwrap(store[sub]).refresh_token)

\* The /token request in slot r hands the stored refresh token to the
\* provider's refresh call.
SendsRefreshToken(r) ==
    /\ req[r].op = "token"
    /\ req[r].pc = "get"
    /\ req'[r].pc = "refresh"

\* C37: the refresh token stored for a subject is never one the service has
\* successfully revoked at the provider, through /revoke with
\* revoke_refresh_token or through a callback's pre-overwrite revocation;
\* and /token never sends the provider a refresh token the service revoked.
C37_StoredTokenNeverRevoked ==
    [][/\ \A sub \in Subjects :
            HasStoredRefreshToken(sub)' => StoredRefreshToken(sub)' \notin revoked'
       /\ \A r \in Reqs :
            SendsRefreshToken(r) => Unwrap(req'[r].existing) \notin revoked]_vars

\* C38: no step of a /token or /revoke request changes the store: whether
\* the request ends in success or in any error, every subject's stored
\* record is after the step what it was before.
C38_TokenAndRevokeLeaveStore ==
    [][\A r \in Reqs :
        (req'[r] # req[r] /\ req'[r].op \in {"token", "revoke"}) =>
            \A sub \in Subjects : store'[sub] = store[sub]]_vars

\* A /revoke that revoked the stored refresh token has answered 200, the
\* record still holding a token, and a /token has ended in an error after
\* its store lookup.
C38_Witness ==
    /\ \E r \in Reqs :
        /\ req[r].op = "revoke"
        /\ Done(r)
        /\ Result(r).status = 200
        /\ CallsNamed(req[r], "revoke_token") # {}
        /\ LastCall(req[r]).key = "refresh_token"
        /\ HasStoredRefreshToken(req[r].user_id)
    /\ \E r \in Reqs :
        /\ req[r].op = "token"
        /\ Done(r)
        /\ Calls(r) # <<>>
        /\ Result(r).status # 200

\* The store calls the request has made are all at the given key.
StoreCallsAt(rec, key) ==
    \A i \in 1..Len(rec.calls) :
        rec.calls[i].call \in {"repository_get", "repository_update"} =>
            rec.calls[i].key = key

\* C39: a callback touches the store only at the key equal to the subject
\* of the identity token it verified.  Before the token is verified it makes
\* no store call and no revocation; afterwards every lookup and write is at
\* that subject's key, no other subject's record changes, the token it
\* takes for revocation is the one read at that key, and a token it revokes
\* is no other than that one.
C39_CallbackTouchesOnlyItsSubject ==
    [][\A r \in Reqs :
        (req'[r] # req[r] /\ req'[r].op = "callback") =>
            IF IsNone(req'[r].payload)
            THEN /\ store' = store
                 /\ revoked' = revoked
                 /\ StoreCallsAt(req'[r], "")
            ELSE LET A == Unwrap(req'[r].payload).sub
                 IN /\ StoreCallsAt(req'[r], A)
                    /\ \A B \in Subjects \ {A} : store'[B] = store[B]
                    /\ req'[r].existing # req[r].existing =>
                            /\ HasStoredRefreshToken(A)
                            /\ req'[r].existing = Some(StoredRefreshToken(A))
                    /\ revoked' # revoked =>
                            /\ IsSome(req[r].existing)
                            /\ revoked' = revoked
                                    \cup {Unwrap(req[r].existing)}]_vars

\* A callback for one subject has revoked the old token and written the new
\* record while the other subject holds a record of its own.
C39_Witness ==
    \E r \in Reqs :
        /\ Upserted(req[r], TRUE)
        /\ IsSome(req[r].existing)
        /\ Unwrap(req[r].existing) \in revoked
        /\ \E B \in Subjects \ {Unwrap(req[r].payload).sub} :
            /\ HasStoredRefreshToken(B)
            /\ store[B] # store[Unwrap(req[r].payload).sub]

\* The callback in slot r, run with revoke_existing_tokens, has completed
\* for the subject with a new refresh token, every call having succeeded.
CompletedAllOk(r, sub) ==
    /\ req[r].op = "callback"
    /\ req[r].revoke_existing_tokens
    /\ Upserted(req[r], TRUE)
    /\ Unwrap(req[r].payload).sub = sub
    /\ \A i \in 1..Len(Calls(r)) : Calls(r)[i].ok

\* The refresh token the callback in slot r obtained from the provider.
ObtainedRefreshToken(r) == Unwrap(Unwrap(req[r].response).refresh_token)

\* The tokens the callback in slot r has revoked before its upsert.
RevokedBeforeOverwrite(r) ==
    {Unwrap(Calls(r)[i].token) : i \in CallsNamed(req[r], "revoke_token")}

\* C40: with revoke_existing_tokens set, once the callbacks for one subject
\* (the only requests so far, one after the other or interleaved) have
\* completed with every provider and store call succeeding, each refresh
\* token they obtained that is no longer the stored one has been revoked,
\* and no pre-overwrite revocation has revoked the token that is stored.
C40_SupersededTokensRevoked ==
    \A sub \in Subjects :
        \A r, other \in Reqs :
            (/\ CompletedAllOk(r, sub)
             /\ CompletedAllOk(other, sub)
             /\ started = Cardinality({r, other})) =>
                /\ HasStoredRefreshToken(sub)
                /\ \A c \in {r, other} :
                    /\ StoredRefreshToken(sub) \notin RevokedBeforeOverwrite(c)
                    /\ ObtainedRefreshToken(c) # StoredRefreshToken(sub) =>
                            ObtainedRefreshToken(c) \in revoked

====
